---- MODULE Spec2Model ----
(***************************************************************************)
(* A model of the client-side list-data engine of the claims front end:    *)
(* the fetch coordinator (fetchTableData), the multi-level query cache,    *)
(* the realtime subscription manager and the conflict-aware writer         *)
(* (updateDataInSupabase and its callers).                                 *)
(*                                                                         *)
(* JavaScript values are modelled as strings: a string value is itself,    *)
(* the number n is written "#n", undefined is "undefined" and null is      *)
(* "null", so that the strict comparison (===) of the code is equality of  *)
(* the modelled values.                                                    *)
(***************************************************************************)
EXTENDS Integers, Sequences, FiniteSets, TLC

(***************************************************************************)
(* Bounds of the model.                                                    *)
(***************************************************************************)
MaxRecs == 4            \* rows of the remote table claims_v2
PageSize == 2           \* ListState.pagination.pageSize (scaled down)
MaxRequests == 3        \* list requests issued in one run
MaxRemoteWrites == 1    \* writes by other users in one run
MaxUpdates == 1         \* updateDataInSupabase calls in one run
MaxChanged == 2         \* key fields in which the records given to detectConflict differ
MaxCacheCalls == 3      \* cache calls and clock steps in one run
MaxRows == 10           \* rows of the data given to the list renderer
MaxViewportRows == 2    \* window.innerHeight - 400, in rows
MaxEvents == 3          \* scroll events and data updates in one run
MaxPushed == 3          \* change events pushed to the subscriber in one run
MaxTicks == 4           \* steps of the clock between realtime events in one run
MaxStatuses == 7        \* channel status callbacks and subscribe failures in one run
MaxStopStatuses == 2    \* the same in a run with changes by other users
MaxTermLen == 3         \* characters of a search term

RecIds == 1..MaxRecs
Statuses == {"pending", "paid"}
StatusFilters == {"all"} \cup Statuses

(***************************************************************************)
(* The remote table.  Record i is created with order number "WH<i>"; odd   *)
(* records start pending, even ones paid.  entry_date grows with the id,   *)
(* so ordering by entry_date is ordering by id.                            *)
(***************************************************************************)
OrderNos == [i \in 1..9 |-> <<"WH1", "WH2", "WH3", "WH4", "WH5", "WH6", "WH7", "WH8", "WH9">>[i]]

NewRecord(i) ==
    [id |-> i,
     order_no |-> OrderNos[i],
     tracking_no |-> "T",
     process_status |-> IF i % 2 = 1 THEN "pending" ELSE "paid",
     claim_total |-> "#100",
     claim_qty |-> "#1"]

InitRemote == [i \in RecIds |-> NewRecord(i)]

(***************************************************************************)
(* Sequence helpers.                                                       *)
(***************************************************************************)
RECURSIVE SeqFilter(_, _)
SeqFilter(s, keep) ==
    IF s = <<>> THEN <<>>
    ELSE IF Head(s) \in keep THEN <<Head(s)>> \o SeqFilter(Tail(s), keep)
         ELSE SeqFilter(Tail(s), keep)

Reverse(s) == [i \in 1..Len(s) |-> s[Len(s) + 1 - i]]

\* Array.prototype.slice(from, to) with 0-based from (inclusive), to (exclusive)
Slice(s, from, to) ==
    LET lo == IF from < Len(s) THEN from ELSE Len(s)
        hi == IF to < Len(s) THEN to ELSE Len(s)
    IN  IF hi <= lo THEN <<>> ELSE SubSeq(s, lo + 1, hi)

\* Array.prototype.findIndex on the id of the rows: 0 when absent (the code's -1)
RECURSIVE FindIndexFrom(_, _, _)
FindIndexFrom(rows, id, i) ==
    IF i > Len(rows) THEN 0
    ELSE IF rows[i].id = id THEN i
         ELSE FindIndexFrom(rows, id, i + 1)

FindIndex(rows, id) == FindIndexFrom(rows, id, 1)

(***************************************************************************)
(* Program constants of the cache layer (database.js).                     *)
(***************************************************************************)
CACHE_TTL == 30000
MAX_CACHE_SIZE == 50
LOCALSTORAGE_CACHE_TTL == 300000
MAX_LOCALSTORAGE_CACHE_SIZE == 20
TABLE_ROW_HEIGHT == 50
bufferCount == 3
debounceDelay == 500
maxReconnectAttempts == 5
reconnectDelay == 1000
baseTriggerDistance == 200
maxLoadMoreRetries == 5

VARIABLES
    remote,                 \* claims_v2: record id -> record
    deleted,                \* ids of the records deleted from claims_v2
    remoteWrites,           \* number of writes other users have made
    channel,                \* realtime payloads pushed and not yet delivered
    now,                    \* Date.now()
    ListState,              \* main.js ListState
    fetchRequestId,         \* database.js fetchRequestId
    currentFetchController, \* id of the request that owns it, 0 for null
    abortedControllers,     \* requests whose AbortController got abort()
    requests,               \* the list requests issued so far, by request id
    requestCache,           \* memory tier: entries in Map insertion order
    lsCache,                \* persistent tier: wh_claims_cache_* entries
    cacheStats,             \* database.js cacheStats
    dbConnectionState,      \* database.js dbConnectionState
    lastToast,              \* the notification shown last
    database,               \* database.js database (local copy of the table)
    localDb,                \* localStorage wh_claims_db_pro
    vsm,                    \* VirtualScrollManager fields used by loadMoreData
    rt,                     \* RealtimeSubscriptionManager fields
    rtFetches,              \* updateRecords calls awaiting their select
    closeTimer,             \* closeEditModal's 300 ms timer is armed
    saveTimers,             \* setCachedData's setTimeout(0) saves not yet run
    cacheCalls,             \* number of cache calls and clock steps so far
    storageReads,           \* history: the reads the persistent tier has answered
    warmup,                 \* warmupCache: its timers and the preloads awaiting
    invalidated,            \* history: the keys cleared and not set since
    editingModalId,         \* main.js editingModalId, 0 for null
    editingOriginalData,    \* main.js editingOriginalData, NoData for null
    editForm,               \* the fields of the edit dialog's form
    opening,                \* the id openEditModal is awaiting, 0 for none
    editingId,              \* ui.js editingId (form-based edit), 0 for null
    claimForm,              \* the fields of the claim form
    upd,                    \* the updateDataInSupabase call in progress
    updateCalls,              \* number of updateDataInSupabase calls so far
    lastOp                  \* the handler that ran last and what it did

clientVars == <<ListState, fetchRequestId, currentFetchController, abortedControllers,
                requests, requestCache, lsCache, cacheStats, dbConnectionState,
                lastToast, database, localDb, vsm, closeTimer, saveTimers,
                cacheCalls, storageReads, warmup, invalidated>>

writerVars == <<editingModalId, editingOriginalData, editForm, opening, editingId,
                claimForm, upd, updateCalls>>

vars == <<remote, deleted, remoteWrites, channel, now, clientVars, rt, rtFetches,
          writerVars, lastOp>>

(***************************************************************************)
(* The client state as one value, so that a handler that calls another     *)
(* handler is the composition of two functions on it.                      *)
(***************************************************************************)
Client ==
    [ListState |-> ListState,
     fetchRequestId |-> fetchRequestId,
     currentFetchController |-> currentFetchController,
     abortedControllers |-> abortedControllers,
     requests |-> requests,
     requestCache |-> requestCache,
     lsCache |-> lsCache,
     cacheStats |-> cacheStats,
     dbConnectionState |-> dbConnectionState,
     lastToast |-> lastToast,
     database |-> database,
     localDb |-> localDb,
     vsm |-> vsm,
     closeTimer |-> closeTimer,
     saveTimers |-> saveTimers,
     cacheCalls |-> cacheCalls,
     storageReads |-> storageReads,
     warmup |-> warmup,
     invalidated |-> invalidated,
     now |-> now,
     wrote |-> "none",
     toasted |-> FALSE]

Commit(c) ==
    /\ ListState' = c.ListState
    /\ fetchRequestId' = c.fetchRequestId
    /\ currentFetchController' = c.currentFetchController
    /\ abortedControllers' = c.abortedControllers
    /\ requests' = c.requests
    /\ requestCache' = c.requestCache
    /\ lsCache' = c.lsCache
    /\ cacheStats' = c.cacheStats
    /\ dbConnectionState' = c.dbConnectionState
    /\ lastToast' = c.lastToast
    /\ database' = c.database
    /\ localDb' = c.localDb
    /\ vsm' = c.vsm
    /\ closeTimer' = c.closeTimer
    /\ saveTimers' = c.saveTimers
    /\ cacheCalls' = c.cacheCalls
    /\ storageReads' = c.storageReads
    /\ warmup' = c.warmup
    /\ invalidated' = c.invalidated

\* lastOp: the handler, the request id it ran for (0: none), the code path
\* that assigned ListState.data / totalCount ("none": no assignment) and
\* whether it showed a notification.
Op(name, id, c) == [op |-> name, id |-> id, wrote |-> c.wrote, toasted |-> c.toasted]

showToast(c, msg) == [c EXCEPT !.lastToast = msg, !.toasted = TRUE]

setDbConnectionState(c, state) == [c EXCEPT !.dbConnectionState = state]

\* null where the code holds a record
NoData == [id |-> 0]

\* no updateDataInSupabase call in progress
IdleUpdate == [pc |-> "idle"]

(***************************************************************************)
(* Cache layer (database.js 38-371).                                       *)
(***************************************************************************)
NoEntry == [key |-> "none"]
Hit(entry) == "data" \in DOMAIN entry

\* a property of an object, undefined when the object has none of that name
Prop(object, name) == IF name \in DOMAIN object THEN object[name] ELSE "undefined"

\* the properties of filters that getCacheKey serialises (42-47)
KeyFilters == {"status", "type", "search", "searchMode", "searchField", "advancedFilters"}

\* getCacheKey (38-51): the JSON text as the properties it holds.
\* JSON.stringify leaves out a property whose value is undefined and writes
\* every other value as it is (null as null), in the order of the literal.
getCacheKey(page, pageSize, filters, sorting) ==
    [page |-> page, pageSize |-> pageSize, col |-> sorting.col, asc |-> sorting.asc]
        @@ [name \in {n \in KeyFilters : Prop(filters, n) # "undefined"} |-> filters[name]]

\* the place of the entry stored under key at or after place i, 0 for none
CacheIndex(cache, key, i) ==
    LET found == {j \in i..Len(cache) : cache[j].key = key}
    IN  IF found = {} THEN 0 ELSE CHOOSE j \in found : \A k \in found : j <= k

\* Map.prototype.set: an existing key keeps its place, a new one goes last
MapSet(cache, entry) ==
    LET i == CacheIndex(cache, entry.key, 1)
    IN  IF i = 0 THEN Append(cache, entry) ELSE [cache EXCEPT ![i] = entry]

DropExpired(cache, t, ttl) ==
    SelectSeq(cache, LAMBDA entry : ~(t - entry.timestamp > ttl))

\* the order of insertion in place of the order of access
AccessTimeInserted(e) == e.timestamp

\* (a.lastAccessed || a.timestamp): 0 is falsy
AccessTime(e) == IF e.lastAccessed # 0 THEN e.lastAccessed ELSE e.timestamp

\* the index of the entry Array.prototype.sort (stable) puts first
OldestIndex(cache, byAccess) ==
    LET time(i) == IF byAccess THEN AccessTime(cache[i]) ELSE cache[i].timestamp
    IN  CHOOSE i \in 1..Len(cache) :
            \A j \in 1..Len(cache) : time(i) < time(j) \/ (time(i) = time(j) /\ i <= j)

RemoveAt(s, i) == SubSeq(s, 1, i - 1) \o SubSeq(s, i + 1, Len(s))

RECURSIVE EvictOldest(_, _, _)
EvictOldest(cache, n, byAccess) ==
    IF n <= 0 \/ cache = <<>> THEN cache
    ELSE EvictOldest(RemoveAt(cache, OldestIndex(cache, byAccess)), n - 1, byAccess)

\* cleanLocalStorageCache (116-149): drops the expired entries, then the
\* oldest by timestamp while over the cap
cleanLocalStorageCache(c, forceClean) ==
    LET live == DropExpired(c.lsCache, c.now, LOCALSTORAGE_CACHE_TTL)
        over == Len(live) - MAX_LOCALSTORAGE_CACHE_SIZE + (IF forceClean THEN 5 ELSE 0)
    IN  [c EXCEPT !.lsCache =
            IF Len(live) > MAX_LOCALSTORAGE_CACHE_SIZE \/ forceClean
            THEN EvictOldest(live, over, FALSE) ELSE live]

\* cleanExpiredCache (154-171)
cleanExpiredCache(c) ==
    LET live == DropExpired(c.requestCache, c.now, CACHE_TTL)
        kept == IF Len(live) > MAX_CACHE_SIZE
                THEN EvictOldest(live, Len(live) - MAX_CACHE_SIZE, TRUE) ELSE live
    IN  cleanLocalStorageCache([c EXCEPT !.requestCache = kept], FALSE)

\* the expiry test of getCacheFromLocalStorage (67)
IsExpiredNever(entry, t) == FALSE

IsExpired(entry, t) == t - entry.timestamp > LOCALSTORAGE_CACHE_TTL

\* getCacheFromLocalStorage (58-76): an expired entry is removed
getCacheFromLocalStorage(c, key) ==
    LET i == CacheIndex(c.lsCache, key, 1)
    IN  IF i = 0 THEN [c |-> c, cached |-> NoEntry]
        ELSE IF IsExpired(c.lsCache[i], c.now)
             THEN [c |-> [c EXCEPT !.lsCache = RemoveAt(c.lsCache, i)], cached |-> NoEntry]
             ELSE [c |-> [c EXCEPT !.storageReads = @ \cup {[key |-> key, at |-> c.now]}],
                   cached |-> c.lsCache[i]]

\* getCachedData (178-200): [c, cached, tier]; cached = NoEntry is the code's
\* null, tier the branch that returned.  A hit of the persistent tier is
\* copied into the memory tier with its own timestamp (191-194).
getCachedData(c, key) ==
    LET c0 == [c EXCEPT !.cacheStats.totalRequests = @ + 1]
        i == CacheIndex(c0.requestCache, key, 1)
    IN  IF i # 0 /\ c.now - c0.requestCache[i].timestamp < CACHE_TTL
        THEN [c |-> [c0 EXCEPT !.requestCache[i].lastAccessed = c.now,
                               !.cacheStats.memoryHits = @ + 1],
              cached |-> [c0.requestCache[i] EXCEPT !.lastAccessed = c.now],
              tier |-> "memory"]
        ELSE LET ls == getCacheFromLocalStorage(c0, key)
             IN  IF Hit(ls.cached)
                 THEN [c |-> [ls.c EXCEPT
                                !.requestCache = MapSet(@,
                                    [key |-> key, data |-> ls.cached.data,
                                     totalCount |-> ls.cached.totalCount,
                                     timestamp |-> ls.cached.timestamp,
                                     lastAccessed |-> c.now]),
                                !.cacheStats.localStorageHits = @ + 1],
                       cached |-> ls.cached,
                       tier |-> "localStorage"]
                 ELSE [c |-> [ls.c EXCEPT !.cacheStats.misses = @ + 1],
                       cached |-> NoEntry, tier |-> "none"]

\* saveCacheToLocalStorage (84-110).  storage is what localStorage.setItem
\* does: "ok" it stores; "quota" the first call throws QuotaExceededError and
\* the retry after the forced cleanup stores; "full" both calls throw.
saveCacheToLocalStorage(c, key, data, totalCount, storage) ==
    LET cacheData == [key |-> key, data |-> data, totalCount |-> totalCount,
                      timestamp |-> c.now]
        cleaned == cleanLocalStorageCache(c, FALSE)
        forced == cleanLocalStorageCache(cleaned, TRUE)
    IN  IF storage = "ok" THEN [cleaned EXCEPT !.lsCache = MapSet(@, cacheData)]
        ELSE IF storage = "quota" THEN [forced EXCEPT !.lsCache = MapSet(@, cacheData)]
        ELSE forced

\* setCachedData (208-223): the save to the persistent tier is left to a
\* setTimeout(0) callback
setCachedData(c, key, data, totalCount) ==
    cleanExpiredCache(
        [c EXCEPT !.requestCache = MapSet(@, [key |-> key, data |-> data,
                                             totalCount |-> totalCount,
                                             timestamp |-> c.now,
                                             lastAccessed |-> c.now]),
                  !.saveTimers = Append(@, [key |-> key, data |-> data,
                                            totalCount |-> totalCount]),
                  !.invalidated = @ \ {key}])

\* the keys the cache has been given: those of its two tiers and those of
\* the saves not yet run
KnownKeys(c) ==
    {c.requestCache[i].key : i \in 1..Len(c.requestCache)}
        \cup {c.lsCache[i].key : i \in 1..Len(c.lsCache)}
        \cup {c.saveTimers[i].key : i \in 1..Len(c.saveTimers)}

\* clearAllCache (353-371)
clearAllCache(c) ==
    [c EXCEPT !.requestCache = <<>>, !.lsCache = <<>>,
              !.cacheStats = [memoryHits |-> 0, localStorageHits |-> 0,
                              misses |-> 0, totalRequests |-> 0],
              !.invalidated = @ \cup KnownKeys(c)]

DropFilters(cache, filters) ==
    SelectSeq(cache, LAMBDA entry : entry.key.status # filters.status)

\* clearCacheByFilters (287-348)
clearCacheByFilters(c, filters) ==
    [c EXCEPT !.requestCache = DropFilters(@, filters), !.lsCache = DropFilters(@, filters),
              !.invalidated = @ \cup {k \in KnownKeys(c) : k.status = filters.status}]

(***************************************************************************)
(* The remote query of fetchTableData (537-561): order by the sort column, *)
(* the status equality predicate, range(start, end), count: 'exact'.       *)
(***************************************************************************)
RECURSIVE MatchingRows(_, _, _, _)
MatchingRows(table, gone, status, i) ==
    IF i > MaxRecs THEN <<>>
    ELSE IF i \notin gone /\ (status = "all" \/ table[i].process_status = status)
         THEN <<table[i]>> \o MatchingRows(table, gone, status, i + 1)
         ELSE MatchingRows(table, gone, status, i + 1)

QueryResult(q, table, gone) ==
    LET asc == MatchingRows(table, gone, q.status, 1)
        all == IF q.asc THEN asc ELSE Reverse(asc)
    IN  [data |-> Slice(all, q.start, q.end + 1), count |-> Len(all)]

(***************************************************************************)
(* Fetch coordinator: fetchTableData up to its await (480-561).  page = 0  *)
(* is the code's page = null.  The AbortController made at 518 is never    *)
(* handed to the query (no abortSignal), so abort() at 517 marks the       *)
(* controller and leaves the request of the transport as it is.            *)
(***************************************************************************)
IsLatestAlways(requestId, c) == TRUE

IsLatest(requestId, c) == requestId = c.fetchRequestId

\* The signal the query of a request listens to: the query is built at
\* 540-559 without abortSignal(...), so it listens to no controller (0).
QuerySignal(requestId) == 0

\* AbortController.abort() on the controller of request `owner`: the
\* controller is marked, and the pending transports that listen to its
\* signal are aborted.
RECURSIVE AbortListeners(_, _, _)
AbortListeners(reqs, owner, i) ==
    IF i > Len(reqs) THEN reqs
    ELSE AbortListeners(
            IF reqs[i].signal = owner /\ reqs[i].transport = "pending"
            THEN [reqs EXCEPT ![i].transport = "aborted"] ELSE reqs,
            owner, i + 1)

abort(c) ==
    IF c.currentFetchController # 0
    THEN [c EXCEPT !.abortedControllers = @ \cup {c.currentFetchController},
                   !.requests = AbortListeners(@, c.currentFetchController, 1)]
    ELSE c

\* fetchTableData from its cache test to its await (499-561): c2 is the
\* client after the lookup of 490-498, cached what the lookup returned
fetchLookedUp(c2, cached, append, forceRefresh, targetPage, caller) ==
        IF ~append /\ ~forceRefresh /\ Hit(cached)
        THEN setDbConnectionState(
                [c2 EXCEPT !.ListState.data = cached.data,
                           !.ListState.totalCount = cached.totalCount,
                           !.wrote = "cache"],
                "connected")
        ELSE LET requestId == c2.fetchRequestId + 1
                 start == (targetPage - 1) * c2.ListState.pagination.pageSize
                 req == [append |-> append, forceRefresh |-> forceRefresh,
                         targetPage |-> targetPage,
                         status |-> c2.ListState.filters.status,
                         asc |-> c2.ListState.sorting.asc,
                         start |-> start,
                         end |-> start + c2.ListState.pagination.pageSize - 1,
                         caller |-> caller,
                         signal |-> QuerySignal(requestId),
                         transport |-> "pending",
                         outcome |-> "none"]
             IN  [abort(c2) EXCEPT
                    !.currentFetchController = requestId,
                    !.fetchRequestId = requestId,
                    !.ListState.isLoading = TRUE,
                    !.requests = Append(@, req)]

fetchTableData(c, append, forceRefresh, page, caller) ==
    LET c1 == IF page > 0 THEN [c EXCEPT !.ListState.pagination.page = page] ELSE c
        targetPage == IF page # 0 THEN page ELSE c1.ListState.pagination.page
        key == getCacheKey(targetPage, c1.ListState.pagination.pageSize,
                           c1.ListState.filters, c1.ListState.sorting)
        look == getCachedData(cleanExpiredCache(c1), key)
    IN  fetchLookedUp(IF ~append /\ ~forceRefresh THEN look.c ELSE c1, look.cached,
                      append, forceRefresh, targetPage, caller)

(***************************************************************************)
(* fetchTableData after its await (561-647).  The outcome of the await:    *)
(*   "data"   the query resolved with { data, count, error: null }         *)
(*   "error"  the query resolved with { error }                            *)
(*   "throw"  the await rejected with an error that is no AbortError       *)
(*   "abort"  the await rejected with an AbortError (aborted transport)    *)
(***************************************************************************)
Outcomes(req) ==
    IF req.transport = "aborted" THEN {"abort"} ELSE {"data", "error", "throw"}

\* the fallback with the first page of the snapshot whatever the page
fetchFallbackFirstPage(c, req) ==
    setDbConnectionState(
        [c EXCEPT !.ListState.data =
                        LET localPageData == Slice(c.localDb, 0, c.ListState.pagination.pageSize)
                        IN  IF req.append THEN @ \o localPageData ELSE localPageData,
                  !.ListState.totalCount = Len(c.localDb),
                  !.wrote = "fallback"],
        "error")

\* the catch block's fallback (600-639), run for the latest request only
fetchFallback(c, req) ==
    LET key == getCacheKey(req.targetPage, c.ListState.pagination.pageSize,
                           c.ListState.filters, c.ListState.sorting)
        look == getCachedData(c, key)
        start == (look.c.ListState.pagination.page - 1) * look.c.ListState.pagination.pageSize
        end == start + look.c.ListState.pagination.pageSize - 1
        localPageData == Slice(look.c.localDb, start, end + 1)
    IN  IF Hit(look.cached)
        THEN setDbConnectionState(
                [look.c EXCEPT !.ListState.data = look.cached.data,
                               !.ListState.totalCount = look.cached.totalCount,
                               !.wrote = "fallback"],
                "connected")
        ELSE setDbConnectionState(
                [look.c EXCEPT !.ListState.data =
                                    IF req.append THEN @ \o localPageData ELSE localPageData,
                               !.ListState.totalCount = Len(look.c.localDb),
                               !.wrote = "fallback"],
                "error")

fetchFinallyUnguarded(c, requestId) ==
    [c EXCEPT !.ListState.isLoading = FALSE, !.currentFetchController = 0]

\* the finally block (640-646)
fetchFinally(c, requestId) ==
    IF IsLatest(requestId, c)
    THEN [c EXCEPT !.ListState.isLoading = FALSE, !.currentFetchController = 0]
    ELSE c

\* loadMoreData after its await of fetchTableData(true) (841-878):
\* fetchTableData never rejects, so the try block completes
loadMoreSettled(c) ==
    [c EXCEPT !.vsm.loadMoreRetryCount = 0, !.vsm.isLoading = FALSE]

\* closeEditModal (main.js 1896-1906): the form is cleared by a timer
closeEditModal(c) == [c EXCEPT !.closeTimer = TRUE]

\* submitEditForm after its await of fetchTableData(false, true) (2151-2154)
submitEditFormSettled(c) == closeEditModal(showToast(c, "saved"))

\* the place of the preload that awaits request requestId, 0 for none
PreloadOf(c, requestId) ==
    LET found == {i \in 1..Len(c.warmup.preloads) : c.warmup.preloads[i].requestId = requestId}
    IN  IF found = {} THEN 0 ELSE CHOOSE i \in found : TRUE

\* a preload of warmupCache after its await of fetchTableData (267-270):
\* the values it saved are assigned back
preloadSettled(c, requestId) ==
    LET i == PreloadOf(c, requestId)
        p == c.warmup.preloads[i]
    IN  [c EXCEPT !.ListState.filters = p.originalFilters,
                  !.ListState.sorting = p.originalSorting,
                  !.ListState.pagination.page = p.originalPage,
                  !.warmup.preloads = SeqFilter(@, {@[j] : j \in 1..Len(@)} \ {p})]

fetchSettled(c, requestId, outcome, result) ==
    LET req == c.requests[requestId]
        c0 == [c EXCEPT !.requests[requestId].transport = "done",
                        !.requests[requestId].outcome = outcome]
        body ==
            IF outcome \in {"data", "error"} /\ ~IsLatest(requestId, c0)
            THEN c0
            ELSE IF outcome = "data"
            THEN setDbConnectionState(
                    [c0 EXCEPT !.ListState.data =
                                    IF req.append THEN @ \o result.data ELSE result.data,
                               !.ListState.totalCount = result.count,
                               !.wrote = "fetch"],
                    "connected")
            ELSE LET c1 == IF outcome # "abort" THEN showToast(c0, "load_failed") ELSE c0
                 IN  IF IsLatest(requestId, c1) THEN fetchFallback(c1, req) ELSE c1
        done == fetchFinally(body, requestId)
    IN  IF req.caller = "loadMoreData" THEN loadMoreSettled(done)
        ELSE IF req.caller = "submitEditForm" THEN submitEditFormSettled(done)
        ELSE IF req.caller = "warmupCache" THEN preloadSettled(done, requestId)
        ELSE done

(***************************************************************************)
(* Handlers of the list view.                                              *)
(***************************************************************************)
\* switchSubTab (ui.js 164-223)
switchSubTab(c, status) ==
    fetchTableData(
        clearAllCache([c EXCEPT !.ListState.filters.status = status,
                                !.ListState.pagination.page = 1]),
        FALSE, TRUE, 0, "switchSubTab")

\* sortColumn (ui.js 756-767) on the one sortable column of the model
sortColumn(c, col) ==
    fetchTableData(
        [c EXCEPT !.ListState.sorting =
                        IF @.col = col
                        THEN [@ EXCEPT !.asc = ~@, !.isUserDefined = TRUE]
                        ELSE [col |-> col, asc |-> TRUE, isUserDefined |-> TRUE],
                  !.ListState.pagination.page = 1],
        FALSE, FALSE, 0, "sortColumn")

\* renderPaginationControls (main.js 1364-1367)
TotalPages(ls) ==
    LET n == (ls.totalCount + ls.pagination.pageSize - 1) \div ls.pagination.pageSize
    IN  IF n < 1 THEN 1 ELSE n

CurrentPage(ls) ==
    LET p == IF ls.pagination.page < TotalPages(ls) THEN ls.pagination.page ELSE TotalPages(ls)
    IN  IF p < 1 THEN 1 ELSE p

\* loadMoreData up to its await (main.js 832-840)
loadMoreData(c) ==
    fetchTableData([c EXCEPT !.vsm.isLoading = TRUE, !.ListState.pagination.page = @ + 1],
                   TRUE, FALSE, 0, "loadMoreData")

CanIssue == fetchRequestId < MaxRequests

\* commonQueries of warmupCache (245-248), by their status filter
commonQueries == <<"all", "pending">>

\* warmupCache (243-280): a timer is set for each query the cache does not
\* hold; before is history, the view at the call
RECURSIVE warmupCacheFrom(_, _)
warmupCacheFrom(c, k) ==
    IF k > Len(commonQueries) THEN c
    ELSE LET look == getCachedData(c, getCacheKey(1, c.ListState.pagination.pageSize,
                                       [status |-> commonQueries[k], type |-> "all",
                                        search |-> ""],
                                       [col |-> "entry_date", asc |-> FALSE]))
         IN  warmupCacheFrom(
                IF Hit(look.cached) THEN look.c
                ELSE [look.c EXCEPT !.warmup.timers = Append(@, commonQueries[k])],
                k + 1)

warmupCache(c) ==
    warmupCacheFrom(
        [c EXCEPT !.warmup.called = TRUE,
                  !.warmup.before = [filters |-> c.ListState.filters,
                                     sorting |-> c.ListState.sorting,
                                     page |-> c.ListState.pagination.page,
                                     data |-> c.ListState.data,
                                     totalCount |-> c.ListState.totalCount]],
        1)

\* the timer callback of a preload (256-275) up to its await: ListState is
\* given the filters, sorting and page of the query and fetchTableData is
\* called; a call that returns from the cache is followed by the restoring
\* assignments at once.  The query's sorting has no isUserDefined (falsy)
preload(c, status) ==
    LET saved == [originalFilters |-> c.ListState.filters,
                  originalSorting |-> c.ListState.sorting,
                  originalPage |-> c.ListState.pagination.page]
        c1 == [c EXCEPT !.ListState.filters = [status |-> status, type |-> "all",
                                               search |-> ""],
                        !.ListState.sorting = [col |-> "entry_date", asc |-> FALSE,
                                               isUserDefined |-> FALSE],
                        !.ListState.pagination.page = 1,
                        !.warmup.timers = Tail(@)]
        c2 == fetchTableData(c1, FALSE, FALSE, 1, "warmupCache")
    IN  IF c2.fetchRequestId = c.fetchRequestId
        THEN [c2 EXCEPT !.ListState.filters = saved.originalFilters,
                        !.ListState.sorting = saved.originalSorting,
                        !.ListState.pagination.page = saved.originalPage]
        ELSE [c2 EXCEPT !.warmup.preloads =
                            Append(@, saved @@ [requestId |-> c2.fetchRequestId])]

\* handleAuthChange's timer calls warmupCache (part_000 312-317), here once
\* the list requests issued so far have settled
WarmupCache ==
    /\ ~warmup.called
    /\ \A r \in 1..Len(requests) : requests[r].transport = "done"
    /\ LET c == warmupCache(Client)
       IN  Commit(c) /\ lastOp' = Op("warmupCache", 0, c)
    /\ UNCHANGED <<remote, deleted, remoteWrites, channel, now, rt, rtFetches, writerVars>>

\* the timer of the next preload fires (256)
WarmupPreload ==
    /\ warmup.timers # <<>>
    /\ CanIssue
    /\ LET c == preload(Client, Head(warmup.timers))
       IN  Commit(c) /\ lastOp' = Op("preload", 0, c)
    /\ UNCHANGED <<remote, deleted, remoteWrites, channel, now, rt, rtFetches, writerVars>>

SwitchSubTab ==
    \E status \in StatusFilters :
        /\ CanIssue
        /\ LET c == switchSubTab(Client, status)
           IN  Commit(c) /\ lastOp' = Op("switchSubTab", 0, c)
        /\ UNCHANGED <<remote, deleted, remoteWrites, channel, now, rt, rtFetches, writerVars>>

SortColumn ==
    /\ CanIssue
    /\ LET c == sortColumn(Client, "entry_date")
       IN  Commit(c) /\ lastOp' = Op("sortColumn", 0, c)
    /\ UNCHANGED <<remote, deleted, remoteWrites, channel, now, rt, rtFetches, writerVars>>

\* the next-page button (main.js 1544-1547)
NextPage ==
    /\ CanIssue
    /\ ~ListState.isLoading
    /\ CurrentPage(ListState) < TotalPages(ListState)
    /\ LET c == fetchTableData(Client, FALSE, FALSE, CurrentPage(ListState) + 1, "nextPage")
       IN  Commit(c) /\ lastOp' = Op("nextPage", 0, c)
    /\ UNCHANGED <<remote, deleted, remoteWrites, channel, now, rt, rtFetches, writerVars>>

\* checkLoadMore / loadMoreData (main.js 804-840): the scroll position that
\* passes the distance test is the user's choice
LoadMoreData ==
    /\ CanIssue
    /\ Len(ListState.data) < ListState.totalCount
    /\ ~vsm.isLoading
    /\ LET c == loadMoreData(Client)
       IN  Commit(c) /\ lastOp' = Op("loadMoreData", 0, c)
    /\ UNCHANGED <<remote, deleted, remoteWrites, channel, now, rt, rtFetches, writerVars>>

\* the list request `requestId` settles
FetchSettled ==
    \E requestId \in 1..Len(requests) :
        /\ requests[requestId].transport \in {"pending", "aborted"}
        /\ \E outcome \in Outcomes(requests[requestId]) :
             LET c == fetchSettled(Client, requestId, outcome,
                                   QueryResult(requests[requestId], remote, deleted))
             IN  Commit(c) /\ lastOp' = Op("fetchSettled", requestId, c)
        /\ UNCHANGED <<remote, deleted, remoteWrites, channel, now, rt, rtFetches, writerVars>>

(***************************************************************************)
(* Realtime subscription manager (part_005).                               *)
(***************************************************************************)
\* shouldIncludeRecord (197-249) for the filters of the model
shouldIncludeRecord(ls, record) ==
    ~(ls.filters.status # "all" /\ record.process_status # ls.filters.status)

\* isRecordInList (254-257)
isRecordInList(ls, recordId) == FindIndex(ls.data, recordId) # 0

\* clearCacheAndRefresh (303-331): the refresh timer is (re)armed
clearCacheAndRefresh(c, m) ==
    [c |-> clearCacheByFilters(c, c.ListState.filters),
     rt |-> [m EXCEPT !.refreshTimer = TRUE],
     calls |-> {}]

EventsOf(events, type) ==
    SeqFilter(events, {e \in {events[i] : i \in 1..Len(events)} : e.eventType = type})

\* handleInserts (129-143)
handleInserts(c, m, events) ==
    IF \E i \in 1..Len(events) : shouldIncludeRecord(c.ListState, events[i].new)
    THEN clearCacheAndRefresh(c, m)
    ELSE [c |-> c, rt |-> m, calls |-> {}]

\* handleUpdates (148-173): updatedIds.size < ListState.data.length * 0.3
handleUpdates(c, m, events) ==
    LET updatedIds == {events[i].new.id : i \in
                         {j \in 1..Len(events) :
                            \/ shouldIncludeRecord(c.ListState, events[j].new)
                            \/ isRecordInList(c.ListState, events[j].old.id)}}
    IN  IF updatedIds = {} THEN [c |-> c, rt |-> m, calls |-> {}]
        ELSE IF 10 * Cardinality(updatedIds) < 3 * Len(c.ListState.data)
             THEN [c |-> c, rt |-> m, calls |-> {updatedIds}]
             ELSE clearCacheAndRefresh(c, m)

\* handleDeletes (178-192)
handleDeletes(c, m, events) ==
    IF \E i \in 1..Len(events) : isRecordInList(c.ListState, events[i].old.id)
    THEN clearCacheAndRefresh(c, m)
    ELSE [c |-> c, rt |-> m, calls |-> {}]

\* processEventQueue (101-124); calls: the updateRecords calls it starts
processEventQueue(c, m) ==
    LET events == m.eventQueue
        m0 == [m EXCEPT !.eventQueue = <<>>, !.processQueueTimer = FALSE,
                        !.processed = @ + Len(events)]
        inserts == EventsOf(events, "INSERT")
        updates == EventsOf(events, "UPDATE")
        deletes == EventsOf(events, "DELETE")
        s0 == [c |-> c, rt |-> m0, calls |-> {}]
        s1 == IF Len(inserts) > 0 THEN handleInserts(s0.c, s0.rt, inserts) ELSE s0
        s2 == IF Len(updates) > 0 THEN handleUpdates(s1.c, s1.rt, updates) ELSE s1
        s3 == IF Len(deletes) > 0 THEN handleDeletes(s2.c, s2.rt, deletes) ELSE s2
    IN  [c |-> s3.c, rt |-> s3.rt, calls |-> s2.calls]

\* updateRecords after its await (271-294): the fetched rows replace the
\* rows of the same id in ListState.data, or are pushed when they pass the
\* current filters
RECURSIVE applyUpdatedRecords(_, _)
applyUpdatedRecords(c, data) ==
    IF data = <<>> THEN c
    ELSE LET updatedRecord == Head(data)
             index == FindIndex(c.ListState.data, updatedRecord.id)
         IN  applyUpdatedRecords(
                IF index # 0
                THEN [c EXCEPT !.ListState.data[index] = updatedRecord, !.wrote = "realtime"]
                ELSE IF shouldIncludeRecord(c.ListState, updatedRecord)
                     THEN [c EXCEPT !.ListState.data = Append(@, updatedRecord),
                                    !.wrote = "realtime"]
                     ELSE c,
                Tail(data))

\* select('*').in('id', recordIds)
RowsIn(table, gone, recordIds) ==
    SeqFilter([i \in 1..MaxRecs |-> table[i]], {table[i] : i \in recordIds \ gone})

\* another user updates the status of a record; the change is pushed to the
\* subscribers of the table
OtherWriterUpdate ==
    \E id \in RecIds \ deleted, status \in Statuses :
        /\ remoteWrites < MaxRemoteWrites
        /\ remote[id].process_status # status
        /\ remote' = [remote EXCEPT ![id].process_status = status]
        /\ remoteWrites' = remoteWrites + 1
        /\ channel' = IF rt.isSubscribed
                      THEN Append(channel, [eventType |-> "UPDATE", old |-> remote[id],
                                            new |-> remote'[id]])
                      ELSE channel
        /\ lastOp' = [op |-> "otherWriter", id |-> 0, wrote |-> "none", toasted |-> FALSE]
        /\ UNCHANGED <<deleted, now, clientVars, rt, rtFetches, writerVars>>

\* handleChange (80-96) at the instant t, with a timer already pending left
\* as it is
handleChangeKeepsTimer(m, payload, t) ==
    [m EXCEPT !.eventQueue = Append(@, payload),
              !.processQueueTimer = TRUE,
              !.processQueueDue = IF m.processQueueTimer THEN @ ELSE t + debounceDelay,
              !.lastEventAt = t,
              !.received = @ + 1]

\* handleChange (80-96) at the instant t: isProcessing is false whenever an
\* event is delivered; the pending timer is cleared and a new one is set
handleChange(m, payload, t) ==
    [m EXCEPT !.eventQueue = Append(@, payload),
              !.processQueueTimer = TRUE,
              !.processQueueDue = t + debounceDelay,
              !.lastEventAt = t,
              !.received = @ + 1]

\* unsubscribe (352-366)
unsubscribe(m) ==
    [m EXCEPT !.processQueueTimer = FALSE,
              !.hasChannel = FALSE,
              !.isSubscribed = FALSE,
              !.discarded = @ + Len(m.eventQueue),
              !.eventQueue = <<>>,
              !.stopped = TRUE]

\* handleReconnect (336-347): delays holds the delays of the timers set
\* since the last SUBSCRIBED status
handleReconnect(m) ==
    IF m.reconnectAttempts >= maxReconnectAttempts THEN m
    ELSE [m EXCEPT !.reconnectAttempts = @ + 1,
                   !.reconnectTimers = Append(@, reconnectDelay * 2 ^ m.reconnectAttempts),
                   !.delays = Append(@, reconnectDelay * 2 ^ m.reconnectAttempts)]

\* subscribe (23-57); thrown: creating the channel throws (53-56)
subscribe(m, thrown) ==
    IF m.isSubscribed /\ m.hasChannel THEN m
    ELSE IF thrown THEN handleReconnect(m)
    ELSE [m EXCEPT !.hasChannel = TRUE, !.isSubscribed = TRUE, !.reconnectAttempts = 0]

\* handleSubscriptionStatus (62-75); attempts counts the resubscriptions
\* made since the last SUBSCRIBED status
handleSubscriptionStatus(m, status) ==
    IF status = "SUBSCRIBED"
    THEN [m EXCEPT !.isSubscribed = TRUE, !.reconnectAttempts = 0,
                   !.attempts = 0, !.delays = <<>>]
    ELSE IF status \in {"CHANNEL_ERROR", "TIMED_OUT", "CLOSED"}
         THEN handleReconnect([m EXCEPT !.isSubscribed = FALSE])
         ELSE m

\* the channel delivers its next event to the subscriber's callback (41-43)
HandleChange ==
    /\ channel # <<>>
    /\ rt.isSubscribed
    /\ rt' = handleChange(rt, Head(channel), now)
    /\ channel' = Tail(channel)
    /\ lastOp' = [op |-> "handleChange", id |-> 0, wrote |-> "none", toasted |-> FALSE]
    /\ UNCHANGED <<remote, deleted, remoteWrites, now, clientVars, rtFetches, writerVars>>

\* the debounce timer of handleChange fires, when it is due
ProcessEventQueue ==
    /\ rt.processQueueTimer
    /\ rt.eventQueue # <<>>
    /\ now' = IF now > rt.processQueueDue THEN now ELSE rt.processQueueDue
    /\ LET r == processEventQueue(Client, rt)
       IN  /\ Commit(r.c)
           /\ rt' = r.rt
           /\ rtFetches' = rtFetches \cup r.calls
           /\ lastOp' = Op("processEventQueue", 0, r.c)
    /\ UNCHANGED <<remote, deleted, remoteWrites, channel, writerVars>>

\* another user saves a record without changing it: the table pushes an
\* UPDATE event to the subscriber
OtherWriterSaves ==
    \E id \in RecIds \ deleted :
        /\ rt.isSubscribed
        /\ rt.received + Len(channel) < MaxPushed
        /\ channel' = Append(channel, [eventType |-> "UPDATE", old |-> remote[id],
                                       new |-> remote[id]])
        /\ lastOp' = [op |-> "otherWriter", id |-> 0, wrote |-> "none", toasted |-> FALSE]
        /\ UNCHANGED <<remote, deleted, remoteWrites, now, clientVars, rt, rtFetches,
                       writerVars>>

\* the clock advances by half the debounce delay, not past a pending timer
TimePasses ==
    /\ now + debounceDelay \div 2 <= MaxTicks * (debounceDelay \div 2)
    /\ rt.processQueueTimer => now + debounceDelay \div 2 <= rt.processQueueDue
    /\ now' = now + debounceDelay \div 2
    /\ lastOp' = [op |-> "timePasses", id |-> 0, wrote |-> "none", toasted |-> FALSE]
    /\ UNCHANGED <<remote, deleted, remoteWrites, channel, clientVars, rt, rtFetches,
                   writerVars>>

\* stopRealtimeSubscription (390-394) on sign-out (part_000 346-350): the
\* channel is removed with the events it has not delivered
\* the channel reports its status to the callback given to subscribe (45-47)
ChannelStatus ==
    \E status \in {"SUBSCRIBED", "CHANNEL_ERROR", "TIMED_OUT", "CLOSED"} :
        /\ rt.hasChannel
        /\ rt.statuses < MaxStatuses
        /\ rt' = [handleSubscriptionStatus(rt, status) EXCEPT !.statuses = @ + 1]
        /\ lastOp' = [op |-> "handleSubscriptionStatus", id |-> 0, wrote |-> "none",
                      toasted |-> FALSE]
        /\ UNCHANGED <<remote, deleted, remoteWrites, channel, now, clientVars, rtFetches,
                       writerVars>>

\* a timer of handleReconnect fires (344-346): subscribe()
ReconnectTimerFires ==
    \E i \in 1..Len(rt.reconnectTimers), thrown \in BOOLEAN :
        /\ thrown => rt.statuses < MaxStatuses
        /\ LET m0 == [rt EXCEPT !.reconnectTimers = RemoveAt(@, i)]
               resubscribes == ~(m0.isSubscribed /\ m0.hasChannel)
               m1 == subscribe(m0, thrown)
           IN  rt' = [m1 EXCEPT !.attempts = IF resubscribes THEN @ + 1 ELSE @,
                                !.statuses = IF thrown /\ resubscribes THEN @ + 1 ELSE @]
        /\ lastOp' = [op |-> "reconnect", id |-> 0, wrote |-> "none", toasted |-> FALSE]
        /\ UNCHANGED <<remote, deleted, remoteWrites, channel, now, clientVars, rtFetches,
                       writerVars>>

\* initRealtimeSubscription (379-389) at a sign-in after a sign-out
\* (part_000 323-324)
InitRealtimeSubscription ==
    /\ rt.stopped
    /\ rt' = [subscribe(rt, FALSE) EXCEPT !.stopped = FALSE, !.attempts = 0, !.delays = <<>>]
    /\ lastOp' = [op |-> "initRealtimeSubscription", id |-> 0, wrote |-> "none",
                  toasted |-> FALSE]
    /\ UNCHANGED <<remote, deleted, remoteWrites, channel, now, clientVars, rtFetches,
                   writerVars>>

StopRealtimeSubscription ==
    /\ rt.isSubscribed \/ rt.hasChannel
    /\ rt' = unsubscribe(rt)
    /\ channel' = <<>>
    /\ lastOp' = [op |-> "stopRealtimeSubscription", id |-> 0, wrote |-> "none",
                  toasted |-> FALSE]
    /\ UNCHANGED <<remote, deleted, remoteWrites, now, clientVars, rtFetches, writerVars>>

\* the refresh timer of clearCacheAndRefresh fires (321-330)
RefreshTimerFires ==
    /\ rt.refreshTimer
    /\ fetchRequestId < MaxRequests
    /\ LET c == fetchTableData(Client, FALSE, TRUE, 0, "clearCacheAndRefresh")
       IN  Commit(c) /\ lastOp' = Op("clearCacheAndRefresh", 0, c)
    /\ rt' = [rt EXCEPT !.refreshTimer = FALSE]
    /\ UNCHANGED <<remote, deleted, remoteWrites, channel, now, rtFetches, writerVars>>

\* the select of an updateRecords call settles, with rows or with an error
UpdateRecordsSettled ==
    \E recordIds \in rtFetches, ok \in BOOLEAN :
        /\ LET c == IF ok THEN applyUpdatedRecords(Client, RowsIn(remote, deleted, recordIds))
                    ELSE Client
           IN  Commit(c) /\ lastOp' = Op("updateRecords", 0, c)
        /\ rtFetches' = rtFetches \ {recordIds}
        /\ UNCHANGED <<remote, deleted, remoteWrites, channel, now, rt, writerVars>>

(***************************************************************************)
(* Conflict-aware writer: detectConflict (database.js 958-979).            *)
(***************************************************************************)
\* the keyFields array (960)
keyFields == <<"order_no", "tracking_no", "process_status", "claim_total", "claim_qty">>

\* DB_ALLOWED_COLUMNS (config.js 65-74), the columns of the model's records
DB_ALLOWED_COLUMNS ==
    {"id", "order_no", "tracking_no", "process_status", "claim_total", "claim_qty"}

\* the test of line 968 on one field
IsConflictEither(originalValue, currentValue, userValue) ==
    originalValue # currentValue \/ userValue # currentValue

IsConflict(originalValue, currentValue, userValue) ==
    originalValue # currentValue /\ userValue # currentValue

RECURSIVE detectConflictFrom(_, _, _, _)
detectConflictFrom(originalData, currentRecord, userData, i) ==
    IF i > Len(keyFields) THEN <<>>
    ELSE LET field == keyFields[i]
             rest == detectConflictFrom(originalData, currentRecord, userData, i + 1)
         IN  IF IsConflict(originalData[field], currentRecord[field], userData[field])
             THEN <<[field |-> field,
                     originalValue |-> originalData[field],
                     currentValue |-> currentRecord[field],
                     userValue |-> userData[field]]>> \o rest
             ELSE rest

detectConflict(originalData, currentRecord, userData) ==
    detectConflictFrom(originalData, currentRecord, userData, 1)

(***************************************************************************)
(* Conflict-aware writer: the forms and updateDataInSupabase (database.js  *)
(* 868-949).  A value shown in an input element is a string: the number n  *)
(* reads back as "n".  claim_total and claim_qty are numeric columns, the  *)
(* remote table stores the number a numeral was sent for.                  *)
(***************************************************************************)
TrackingNos == {"T", "TA", "TB"}

\* the value property of an input element that was given v
InputValue(v) ==
    CASE v = "#1" -> "1"
      [] v = "#100" -> "100"
      [] v \in {"undefined", "null"} -> ""
      [] OTHER -> v

\* the value the remote table stores in a column when it is sent v
ColumnValue(field, v) ==
    IF field \in {"claim_total", "claim_qty"}
    THEN CASE v = "1" -> "#1"
           [] v = "100" -> "#100"
           [] OTHER -> v
    ELSE v

\* fillEditForm (main.js 2010-2075) and editRowById (2163-2192): the inputs
FormOf(item) == [f \in DOMAIN item |-> IF f = "id" THEN item.id ELSE InputValue(item[f])]

\* sanitizeDataForSupabase (ui.js 1619-1634), delete dataToUpdate.id and the
\* update of the row (database.js 896-910): the row after the update
UpdatedRow(row, data) ==
    [f \in DOMAIN row |->
        IF f # "id" /\ f \in DB_ALLOWED_COLUMNS /\ f \in DOMAIN data /\ data[f] # "undefined"
        THEN ColumnValue(f, data[f])
        ELSE row[f]]

\* localStorage.setItem('wh_claims_db_pro', JSON.stringify(database))
saveLocal(c) == [c EXCEPT !.localDb = c.database]

\* resetSortingToDefault (main.js 121-132)
resetSortingToDefault(c) ==
    clearCacheByFilters(
        [c EXCEPT !.ListState.sorting = [col |-> "entry_date", asc |-> FALSE,
                                         isUserDefined |-> FALSE]],
        c.ListState.filters)

\* the callers of updateDataInSupabase after their await of it:
\* submitEditForm (main.js 2143-2158), processEntry (1687-1704) and
\* updateStatus (ui.js 303-318)
callerResumed(c, u, success) ==
    LET status == c.ListState.filters.status
        refresh ==
            CASE u.path = "modal" -> success
              [] u.path = "form" -> TRUE
              [] u.path = "status" ->
                    IF status # "all"
                    THEN (u.oldStatus = status /\ u.newStatus # status) \/ success
                    ELSE TRUE
        c1 == CASE u.path = "modal" /\ success ->
                    resetSortingToDefault(
                        saveLocal([c EXCEPT !.database[u.index] = u.record]))
                [] u.path = "form" -> resetSortingToDefault(saveLocal(c))
                [] OTHER -> c
        c2 == IF refresh
              THEN fetchTableData(c1, FALSE, u.path # "form", 0,
                                  CASE u.path = "modal" -> "submitEditForm"
                                    [] u.path = "form" -> "processEntry"
                                    [] u.path = "status" -> "updateStatus")
              ELSE c1
    IN  CASE u.path = "modal" -> c2
          [] u.path = "form" -> showToast(c2, "saved")
          [] u.path = "status" -> showToast(c2, "status_updated")

\* a step of updateDataInSupabase that returns `success` to its caller
Return(c, u, success) == [c |-> c, u |-> u, returned |-> TRUE, success |-> success]

\* a step of updateDataInSupabase that ends at an await
Await(c, u) == [c |-> c, u |-> u, returned |-> FALSE, success |-> FALSE]

\* the step r of updateDataInSupabase, followed by the caller when the call
\* has returned
updateReturned(r) ==
    IF r.returned
    THEN [c |-> callerResumed(r.c, r.u, r.success),
          u |-> [r.u EXCEPT !.pc = "done", !.result = r.success]]
    ELSE [c |-> r.c, u |-> r.u]

\* a call of updateDataInSupabase up to its await of getRecordById (871);
\* snapshot is the record the user's form was filled from
updateDataInSupabase(path, id, data, originalData, snapshot, index, oldStatus) ==
    [pc |-> "refetch", path |-> path, id |-> id, data |-> data, record |-> data,
     originalData |-> originalData, snapshot |-> snapshot, index |-> index,
     oldStatus |-> oldStatus, newStatus |-> data.process_status,
     currentRecord |-> NoData, conflictFields |-> <<>>, overwrites |-> <<>>,
     decision |-> "none", writeSent |-> FALSE, raced |-> FALSE, applied |-> FALSE,
     toast |-> "none", refetch |-> FALSE, result |-> FALSE]

\* 873-876: the record is gone, or getRecordById answered null on an error
recordMissing(c, u) ==
    Return(showToast(c, "not_found"), [u EXCEPT !.toast = "not_found"], FALSE)

\* 871-910 with a record: the conflict test, then the dialog or the update
recordRefetched(c, u, currentRecord) ==
    LET conflictFields ==
            IF u.originalData # NoData
            THEN detectConflict(u.originalData, currentRecord, u.data)
            ELSE <<>>
        u1 == [u EXCEPT !.currentRecord = currentRecord,
                        !.conflictFields = conflictFields,
                        !.overwrites = detectConflict(u.snapshot, currentRecord, u.data)]
    IN  IF Len(conflictFields) > 0
        THEN Await(c, [u1 EXCEPT !.pc = "dialog"])
        ELSE Await(c, [u1 EXCEPT !.pc = "write", !.writeSent = TRUE])

\* fields of data replaced by the values of the conflict entries
RECURSIVE TakeCurrent(_, _, _)
TakeCurrent(data, conflictFields, i) ==
    IF i > Len(conflictFields) THEN data
    ELSE TakeCurrent([data EXCEPT ![conflictFields[i].field] = conflictFields[i].currentValue],
                     conflictFields, i + 1)

\* showConflictDialog(currentRecord, data, conflictFields) (called at 883):
\* the conflicting fields are shown with their original, current and user
\* values and the user cancels, keeps the own values or takes the current
\* values of the conflicting fields
showConflictDialog(currentRecord, data, conflictFields, choice) ==
    CASE choice = "cancel" -> [resolved |-> FALSE, data |-> NoData]
      [] choice = "keep_mine" -> [resolved |-> TRUE, data |-> NoData]
      [] choice = "take_current" ->
            [resolved |-> TRUE, data |-> TakeCurrent(data, conflictFields, 1)]

\* the catch block (941-948)
updateCaught(c, u) ==
    LET index == FindIndex(c.database, u.id)
    IN  Return(IF index # 0 THEN saveLocal([c EXCEPT !.database[index] = u.data]) ELSE c,
               u, FALSE)

updateCancelledKeepingData(c, u) == updateCaught(c, u)

\* 884-886: the user cancelled
updateCancelled(c, u) == Return(c, u, FALSE)

\* 883-891: the dialog returned
conflictResolved(c, u, choice) ==
    LET resolved == showConflictDialog(u.currentRecord, u.data, u.conflictFields, choice)
        u1 == [u EXCEPT !.decision = choice]
    IN  IF ~resolved.resolved
        THEN updateCancelled(c, u1)
        ELSE Await(c, [u1 EXCEPT !.data = IF resolved.data # NoData THEN resolved.data
                                          ELSE @,
                                 !.pc = "write", !.writeSent = TRUE])

\* 917-925: the update matched no row
updateConflicted(c, u) ==
    Return(fetchTableData(showToast(c, "modified_by_other"), FALSE, TRUE, 0,
                          "updateDataInSupabase"),
           [u EXCEPT !.toast = "modified_by_other", !.refetch = TRUE], FALSE)

\* 927-932: the update failed with another error
updateFailed(c, u) ==
    LET index == FindIndex(c.database, u.id)
        c1 == showToast(c, "update_failed")
    IN  Return(IF index # 0 THEN saveLocal([c1 EXCEPT !.database[index] = u.data]) ELSE c1,
               [u EXCEPT !.toast = "update_failed"], FALSE)

\* 933-940: the update returned the updated row
updateSucceeded(c, u, updatedData) ==
    LET index == FindIndex(c.database, u.id)
        c1 == IF index # 0 THEN saveLocal([c EXCEPT !.database[index] = updatedData]) ELSE c
    IN  Return(showToast(c1, "cloud_updated"),
               [u EXCEPT !.toast = "cloud_updated", !.applied = TRUE], TRUE)

\* the update of 910 settles
writeSettled(c, u, outcome, updatedData) ==
    CASE outcome = "ok" -> updateSucceeded(c, u, updatedData)
      [] outcome = "zero_rows" -> updateConflicted(c, u)
      [] outcome = "error" -> updateFailed(c, u)
      [] outcome = "throw" -> updateCaught(c, u)

\* the duplicate test of submitEditForm (2119-2122) and processEntry (1675-1678)
isDuplicate(rows, editing, inputOrderNo) ==
    \E i \in 1..Len(rows) :
        ~(editing # 0 /\ rows[i].id = editing) /\ rows[i].order_no = inputOrderNo

\* the row the user works on: the first row of the list
Selected(id) == Len(ListState.data) > 0 /\ id = ListState.data[1].id

\* the user starts something when no update is under way and the list is
\* not loading
UserIdle == upd.pc \in {"idle", "done"} /\ ~ListState.isLoading

\* one updateDataInSupabase call at a time, MaxUpdates calls in one run
CanUpdate == UserIdle /\ updateCalls < MaxUpdates

\* a change of the remote table is published on the realtime channel
Publish(event) == IF rt.isSubscribed THEN Append(channel, event) ELSE channel

\* cancelEditMode (main.js 2202-2211) at the end of processEntry
WriterCommit(u) ==
    /\ upd' = u
    /\ IF u.pc = "done" /\ u.path = "form"
       THEN editingId' = 0 /\ claimForm' = NoData
       ELSE UNCHANGED <<editingId, claimForm>>

\* openEditModal up to its await (main.js 1852-1866), for a row of the list
OpenEditModal ==
    \E id \in RecIds :
        /\ Selected(id)
        /\ editingModalId = 0 /\ opening = 0 /\ editingId = 0
        /\ UserIdle
        /\ FindIndex(database, id) # 0
        /\ opening' = id
        /\ lastOp' = [op |-> "openEditModal", id |-> 0, wrote |-> "none", toasted |-> FALSE]
        /\ UNCHANGED <<remote, deleted, remoteWrites, channel, now, clientVars, rt, rtFetches,
                       editingModalId, editingOriginalData, editForm, editingId, claimForm,
                       upd, updateCalls>>

\* the edit button of any row (main.js 588) while the timer of the last
\* closeEditModal is pending: openEditModal tests nothing but the record
OpenAnotherEditModal ==
    \E id \in RecIds :
        /\ \E i \in 1..Len(ListState.data) : ListState.data[i].id = id
        /\ closeTimer /\ opening = 0 /\ editingId = 0
        /\ UserIdle
        /\ FindIndex(database, id) # 0
        /\ opening' = id
        /\ lastOp' = [op |-> "openEditModal", id |-> 0, wrote |-> "none", toasted |-> FALSE]
        /\ UNCHANGED <<remote, deleted, remoteWrites, channel, now, clientVars, rt, rtFetches,
                       editingModalId, editingOriginalData, editForm, editingId, claimForm,
                       upd, updateCalls>>

\* openEditModal after its await (1868-1890): the latest record, or the
\* local one when the select failed
OpenEditModalSettled ==
    /\ opening # 0
    /\ \E ok \in BOOLEAN :
        /\ ok => opening \notin deleted
        /\ LET item == database[FindIndex(database, opening)]
               shown == IF ok THEN remote[opening] ELSE item
           IN  /\ editingOriginalData' = shown
               /\ editForm' = FormOf(shown)
    /\ editingModalId' = opening
    /\ opening' = 0
    /\ lastOp' = [op |-> "openEditModalSettled", id |-> editingModalId, wrote |-> "none",
                  toasted |-> FALSE]
    /\ UNCHANGED <<remote, deleted, remoteWrites, channel, now, clientVars, rt, rtFetches,
                   editingId, claimForm, upd, updateCalls>>

\* the user types a tracking number into the edit dialog
EditFormInput ==
    \E t \in TrackingNos :
        /\ editingModalId # 0
        /\ UserIdle
        /\ editForm.tracking_no # t
        /\ editForm' = [editForm EXCEPT !.tracking_no = t]
        /\ lastOp' = [op |-> "editFormInput", id |-> 0, wrote |-> "none", toasted |-> FALSE]
        /\ UNCHANGED <<remote, deleted, remoteWrites, channel, now, clientVars, rt, rtFetches,
                       editingModalId, editingOriginalData, opening, editingId, claimForm,
                       upd, updateCalls>>

\* submitEditForm up to its await of updateDataInSupabase (main.js 2109-2141)
SubmitEditForm ==
    /\ editingModalId # 0
    /\ CanUpdate
    /\ ~isDuplicate(database, editingModalId, editForm.order_no)
    /\ LET index == FindIndex(database, editingModalId)
           record == [editForm EXCEPT !.id = editingModalId,
                                      !.process_status = database[index].process_status]
       IN  /\ index # 0
           /\ WriterCommit(updateDataInSupabase("modal", editingModalId, record,
                                                editingOriginalData, editingOriginalData,
                                                index, record.process_status))
    /\ updateCalls' = updateCalls + 1
    /\ lastOp' = [op |-> "submitEditForm", id |-> 0, wrote |-> "none", toasted |-> FALSE]
    /\ UNCHANGED <<remote, deleted, remoteWrites, channel, now, clientVars, rt, rtFetches,
                   editingModalId, editingOriginalData, editForm, opening>>

\* the close button, the cancel button, a click on the backdrop or the
\* Escape key (main.js 2615, 2621, 2632-2636, 2641-2646): closeEditModal
CloseEditModal ==
    /\ editForm # NoData
    /\ ~closeTimer
    /\ Commit(closeEditModal(Client))
    /\ lastOp' = [op |-> "cancelEditModal", id |-> 0, wrote |-> "none", toasted |-> FALSE]
    /\ UNCHANGED <<remote, deleted, remoteWrites, channel, now, rt, rtFetches, writerVars>>

\* a timer that clears the two variables and leaves the dialog as it is
CloseTimerFiresKeepsDialog ==
    /\ closeTimer
    /\ Commit([Client EXCEPT !.closeTimer = FALSE])
    /\ editingModalId' = 0
    /\ editingOriginalData' = NoData
    /\ lastOp' = [op |-> "closeEditModal", id |-> 0, wrote |-> "none", toasted |-> FALSE]
    /\ UNCHANGED <<remote, deleted, remoteWrites, channel, now, rt, rtFetches,
                   editForm, opening, editingId, claimForm, upd, updateCalls>>

\* the timer of closeEditModal fires (main.js 1899-1905): the backdrop is
\* hidden and the form reset (the form is filled exactly while the backdrop
\* is not hidden, 1868-1886), and the two variables are cleared
CloseTimerFires ==
    /\ closeTimer
    /\ Commit([Client EXCEPT !.closeTimer = FALSE])
    /\ editingModalId' = 0
    /\ editingOriginalData' = NoData
    /\ editForm' = NoData
    /\ lastOp' = [op |-> "closeEditModal", id |-> 0, wrote |-> "none", toasted |-> FALSE]
    /\ UNCHANGED <<remote, deleted, remoteWrites, channel, now, rt, rtFetches,
                   opening, editingId, claimForm, upd, updateCalls>>

\* editRowById (main.js 2163-2199): the claim form is filled from the local
\* copy of the record (item: the record the inputs were filled from)
EditRowById ==
    \E id \in RecIds :
        /\ Selected(id)
        /\ editingId = 0 /\ editingModalId = 0 /\ opening = 0
        /\ UserIdle
        /\ FindIndex(database, id) # 0
        /\ LET item == database[FindIndex(database, id)]
           IN  claimForm' = [item |-> item, input |-> FormOf(item)]
        /\ editingId' = id
        /\ LET c == showToast(Client, "edit_mode")
           IN  Commit(c) /\ lastOp' = Op("editRowById", 0, c)
        /\ UNCHANGED <<remote, deleted, remoteWrites, channel, now, rt, rtFetches,
                       editingModalId, editingOriginalData, editForm, opening,
                       upd, updateCalls>>

\* the user types a tracking number into the claim form
ClaimFormInput ==
    \E t \in TrackingNos :
        /\ editingId # 0
        /\ UserIdle
        /\ claimForm.input.tracking_no # t
        /\ claimForm' = [claimForm EXCEPT !.input.tracking_no = t]
        /\ lastOp' = [op |-> "claimFormInput", id |-> 0, wrote |-> "none", toasted |-> FALSE]
        /\ UNCHANGED <<remote, deleted, remoteWrites, channel, now, clientVars, rt, rtFetches,
                       editingModalId, editingOriginalData, editForm, opening, editingId,
                       upd, updateCalls>>

\* processEntry in edit mode up to its await (main.js 1666-1688)
ProcessEntry ==
    /\ editingId # 0
    /\ CanUpdate
    /\ ~isDuplicate(database, editingId, claimForm.input.order_no)
    /\ LET index == FindIndex(database, editingId)
           record == [claimForm.input EXCEPT !.id = editingId]
           c == [Client EXCEPT !.database[index] = record]
       IN  /\ index # 0
           /\ Commit(c)
           /\ lastOp' = Op("processEntry", 0, c)
           /\ upd' = updateDataInSupabase("form", editingId, record, NoData, claimForm.item,
                                          index, database[index].process_status)
    /\ updateCalls' = updateCalls + 1
    /\ UNCHANGED <<remote, deleted, remoteWrites, channel, now, rt, rtFetches,
                   editingModalId, editingOriginalData, editForm, opening, editingId,
                   claimForm>>

\* updateStatus up to its await (ui.js 290-303), for a row of the list
UpdateStatus ==
    \E id \in RecIds, newStatus \in Statuses :
        /\ Selected(id)
        /\ editingId = 0 /\ editingModalId = 0 /\ opening = 0
        /\ CanUpdate
        /\ LET index == FindIndex(database, id)
               c == saveLocal([Client EXCEPT !.database[index].process_status = newStatus])
           IN  /\ index # 0
               /\ Commit(c)
               /\ lastOp' = Op("updateStatus", 0, c)
               /\ upd' = updateDataInSupabase("status", id, c.database[index], NoData,
                                              database[index], index,
                                              database[index].process_status)
        /\ updateCalls' = updateCalls + 1
        /\ UNCHANGED <<remote, deleted, remoteWrites, channel, now, rt, rtFetches,
                       editingModalId, editingOriginalData, editForm, opening, editingId,
                       claimForm>>

\* getRecordById (848-863) settles and updateDataInSupabase runs to its
\* next await or to its return
RecordRefetched ==
    /\ upd.pc = "refetch"
    /\ \E found \in BOOLEAN :
        /\ found => upd.id \notin deleted
        /\ LET r == updateReturned(IF found
                                   THEN recordRefetched(Client, upd, remote[upd.id])
                                   ELSE recordMissing(Client, upd))
           IN  Commit(r.c) /\ WriterCommit(r.u) /\ lastOp' = Op("recordRefetched", 0, r.c)
    /\ UNCHANGED <<remote, deleted, remoteWrites, channel, now, rt, rtFetches,
                   editingModalId, editingOriginalData, editForm, opening, updateCalls>>

\* the user answers the conflict dialog
ConflictDecision ==
    /\ upd.pc = "dialog"
    /\ \E choice \in {"cancel", "keep_mine", "take_current"} :
        LET r == updateReturned(conflictResolved(Client, upd, choice))
        IN  Commit(r.c) /\ WriterCommit(r.u) /\ lastOp' = Op("conflictDecision", 0, r.c)
    /\ UNCHANGED <<remote, deleted, remoteWrites, channel, now, rt, rtFetches,
                   editingModalId, editingOriginalData, editForm, opening, updateCalls>>

\* the update .eq('id', id) is applied to the table and settles: it matches
\* the row whatever the row holds by now, and no row when the record is gone
WriteSettled ==
    /\ upd.pc = "write"
    /\ \E outcome \in {"ok", "zero_rows", "error", "throw"} :
        /\ outcome = "ok" => upd.id \notin deleted
        /\ outcome = "zero_rows" => upd.id \in deleted
        /\ LET u == [upd EXCEPT !.raced = outcome = "ok"
                                          /\ remote[upd.id] # upd.currentRecord]
               updatedData == UpdatedRow(remote[upd.id], upd.data)
               r == updateReturned(writeSettled(Client, u, outcome, updatedData))
           IN  /\ Commit(r.c) /\ WriterCommit(r.u)
               /\ lastOp' = Op("writeSettled", 0, r.c)
               /\ remote' = IF outcome = "ok" THEN [remote EXCEPT ![upd.id] = updatedData]
                            ELSE remote
               /\ channel' = IF outcome = "ok"
                             THEN Publish([eventType |-> "UPDATE", old |-> remote[upd.id],
                                           new |-> updatedData])
                             ELSE channel
    /\ UNCHANGED <<deleted, remoteWrites, now, rt, rtFetches,
                   editingModalId, editingOriginalData, editForm, opening, updateCalls>>

\* the record this user has open in a form or is writing to
InHand(id) ==
    \/ id \in {opening, editingModalId, editingId}
    \/ upd.pc \in {"refetch", "dialog", "write"} /\ id = upd.id

\* another user changes the tracking number of the record in hand
OtherWriterEdits ==
    \E id \in RecIds \ deleted, t \in TrackingNos :
        /\ remoteWrites < MaxRemoteWrites
        /\ InHand(id)
        /\ remote[id].tracking_no # t
        /\ remote' = [remote EXCEPT ![id].tracking_no = t]
        /\ remoteWrites' = remoteWrites + 1
        /\ channel' = Publish([eventType |-> "UPDATE", old |-> remote[id], new |-> remote'[id]])
        /\ lastOp' = [op |-> "otherWriter", id |-> 0, wrote |-> "none", toasted |-> FALSE]
        /\ UNCHANGED <<deleted, now, clientVars, rt, rtFetches, writerVars>>

\* another user deletes the record in hand
OtherWriterDeletes ==
    \E id \in RecIds \ deleted :
        /\ remoteWrites < MaxRemoteWrites
        /\ InHand(id)
        /\ deleted' = deleted \cup {id}
        /\ remoteWrites' = remoteWrites + 1
        /\ channel' = Publish([eventType |-> "DELETE", old |-> remote[id], new |-> NoData])
        /\ lastOp' = [op |-> "otherWriter", id |-> 0, wrote |-> "none", toasted |-> FALSE]
        /\ UNCHANGED <<remote, now, clientVars, rt, rtFetches, writerVars>>

\* detectConflict is applied to the three records of upd
DetectConflict ==
    /\ upd.pc = "detect"
    /\ upd' = [upd EXCEPT !.pc = "detected",
                          !.conflictFields = detectConflict(upd.originalData,
                                                            upd.currentRecord, upd.data)]
    /\ lastOp' = [op |-> "detectConflict", id |-> 0, wrote |-> "none", toasted |-> FALSE]
    /\ UNCHANGED <<remote, deleted, remoteWrites, channel, now, clientVars, rt, rtFetches,
                   editingModalId, editingOriginalData, editForm, opening, editingId,
                   claimForm, updateCalls>>

\* the query fetchTableData builds for a description (537-559): the range,
\* the order, the status predicate unless the status is empty or 'all', the
\* advanced filters if truthy, the search conditions if the term is not
\* blank, with the defaults of applySearchConditions (670-671)
QueryOf(d) ==
    LET searching == Prop(d.filters, "search") \notin {"undefined", "null", ""}
    IN  [start |-> (d.page - 1) * d.pageSize,
         end |-> (d.page - 1) * d.pageSize + d.pageSize - 1,
         col |-> d.sorting.col,
         asc |-> d.sorting.asc,
         status |-> IF Prop(d.filters, "status") \in {"undefined", "null", "", "all"}
                    THEN "all" ELSE d.filters.status,
         advancedFilters |-> IF Prop(d.filters, "advancedFilters") \in {"undefined", "null"}
                             THEN "none" ELSE d.filters.advancedFilters,
         search |-> IF searching THEN d.filters.search ELSE "",
         searchMode |-> IF ~searching THEN ""
                        ELSE IF Prop(d.filters, "searchMode") \in {"undefined", "null", ""}
                             THEN "fuzzy" ELSE d.filters.searchMode,
         searchField |-> IF ~searching THEN ""
                         ELSE IF Prop(d.filters, "searchField") \in {"undefined", "null", ""}
                              THEN "all" ELSE d.filters.searchField]

\* getCacheKey is applied to the two descriptions of upd
GetCacheKey ==
    /\ upd.pc = "describe"
    /\ upd' = [pc |-> "keyed", a |-> upd.a, b |-> upd.b,
               keyA |-> getCacheKey(upd.a.page, upd.a.pageSize, upd.a.filters, upd.a.sorting),
               keyB |-> getCacheKey(upd.b.page, upd.b.pageSize, upd.b.filters, upd.b.sorting)]
    /\ lastOp' = [op |-> "getCacheKey", id |-> 0, wrote |-> "none", toasted |-> FALSE]
    /\ UNCHANGED <<remote, deleted, remoteWrites, channel, now, clientVars, rt, rtFetches,
                   editingModalId, editingOriginalData, editForm, opening, editingId,
                   claimForm, updateCalls>>

(***************************************************************************)
(* The cache layer driven through its functions.  The key of a call is the *)
(* key fetchTableData computes (493-498) for a page of the list as it      *)
(* stands, the data the rows of that page.                                 *)
(***************************************************************************)
PageKey(c, page) ==
    getCacheKey(page, c.ListState.pagination.pageSize, c.ListState.filters,
                c.ListState.sorting)

PageData(c, page) ==
    Slice(c.database, (page - 1) * c.ListState.pagination.pageSize,
          page * c.ListState.pagination.pageSize)

\* the pages the calls are made for: the first two, the first one past the
\* memory cap, the last one and the oldest one the persistent tier holds
\* once as many pages were stored as the memory tier holds
SetPages == {1, MAX_CACHE_SIZE + 1}
GetPages == {1, 2, MAX_CACHE_SIZE - MAX_LOCALSTORAGE_CACHE_SIZE, MAX_CACHE_SIZE}

\* what localStorage.setItem does on a call
Storage == {"ok", "quota", "full"}

CanCall == cacheCalls < MaxCacheCalls

Called(c) == [c EXCEPT !.cacheCalls = @ + 1]

\* lastOp of a cache call: the key it was made for, what it returned and the
\* tier that answered
CacheOp(name, c, key, cached, tier) ==
    [op |-> name, id |-> c.cacheCalls, wrote |-> c.wrote, toasted |-> c.toasted,
     key |-> key, cached |-> cached, tier |-> tier]

saveTimerFired(c, storage) ==
    LET t == Head(c.saveTimers)
    IN  saveCacheToLocalStorage([c EXCEPT !.saveTimers = Tail(@)],
                                t.key, t.data, t.totalCount, storage)

SetCachedData ==
    \E page \in SetPages :
        /\ CanCall
        /\ LET key == PageKey(Client, page)
               c == setCachedData(Called(Client), key, PageData(Client, page),
                                  Len(database))
           IN  Commit(c) /\ lastOp' = CacheOp("setCachedData", c, key, NoEntry, "none")
        /\ UNCHANGED <<remote, deleted, remoteWrites, channel, now, rt, rtFetches, writerVars>>

\* the callback of setCachedData's setTimeout (218-220)
SaveTimerFires ==
    /\ saveTimers # <<>>
    /\ \E storage \in Storage :
         LET c == saveTimerFired(Client, storage)
         IN  Commit(c)
             /\ lastOp' = CacheOp("saveCacheToLocalStorage", c, Head(saveTimers).key,
                                  NoEntry, storage)
    /\ UNCHANGED <<remote, deleted, remoteWrites, channel, now, rt, rtFetches, writerVars>>

GetCachedData ==
    \E page \in GetPages :
        /\ CanCall
        /\ LET key == PageKey(Client, page)
               look == getCachedData(Called(Client), key)
           IN  Commit(look.c)
               /\ lastOp' = CacheOp("getCachedData", look.c, key, look.cached, look.tier)
        /\ UNCHANGED <<remote, deleted, remoteWrites, channel, now, rt, rtFetches, writerVars>>

\* window.clearAllCache (database.js 807), as switchSubTab calls it (ui.js 215)
ClearAllCache ==
    /\ CanCall
    /\ LET c == clearAllCache(Called(Client))
       IN  Commit(c) /\ lastOp' = CacheOp("clearAllCache", c, PageKey(Client, 1), NoEntry, "none")
    /\ UNCHANGED <<remote, deleted, remoteWrites, channel, now, rt, rtFetches, writerVars>>

\* window.clearCacheByFilters(ListState.filters) (database.js 808), as
\* resetSortingToDefault and clearCacheAndRefresh call it (main.js 127-128,
\* part_005 305-306)
ClearCacheByFilters ==
    /\ CanCall
    /\ LET c == clearCacheByFilters(Called(Client), ListState.filters)
       IN  Commit(c)
           /\ lastOp' = CacheOp("clearCacheByFilters", c, PageKey(Client, 1), NoEntry, "none")
    /\ UNCHANGED <<remote, deleted, remoteWrites, channel, now, rt, rtFetches, writerVars>>

\* sortColumn (ui.js 756-767) in a session whose cache holds entries
SortColumnCached ==
    /\ CanCall
    /\ CanIssue
    /\ LET c == sortColumn(Called(Client), "entry_date")
       IN  Commit(c)
           /\ lastOp' = CacheOp("sortColumn", c, PageKey(Client, 1), NoEntry, "none")
    /\ UNCHANGED <<remote, deleted, remoteWrites, channel, now, rt, rtFetches, writerVars>>

\* the instants at which the copies of the first page are one millisecond
\* short of a time to live, exactly that old, and one millisecond past it
Timestamps(cache, key) ==
    {cache[i].timestamp : i \in {j \in 1..Len(cache) : cache[j].key = key}}

Instants(c) ==
    {t + ttl + e : t \in Timestamps(c.requestCache, PageKey(c, 1))
                         \cup Timestamps(c.lsCache, PageKey(c, 1)),
                   ttl \in {CACHE_TTL, LOCALSTORAGE_CACHE_TTL}, e \in {-1, 0, 1}}

\* time passes: by a millisecond, or, no zero-delay timer pending, up to one
\* of the instants
Tick ==
    /\ CanCall
    /\ \E t \in {now + 1} \cup {i \in Instants(Client) : i > now /\ saveTimers = <<>>} :
         /\ now' = t
         /\ Commit(Called(Client))
         /\ lastOp' = CacheOp("tick", Called(Client), PageKey(Client, 1), NoEntry, "none")
    /\ UNCHANGED <<remote, deleted, remoteWrites, channel, rt, rtFetches, writerVars>>

(***************************************************************************)
(* The virtualised list renderer: main.js VirtualScrollManager and its     *)
(* container element.  vsm holds the manager's fields, the container       *)
(* (clientHeight, containerScrollTop, the heights of the two spacer rows   *)
(* and dom, the rows between them in document order) and frames, the       *)
(* requestAnimationFrame callbacks not yet run.  Row indices are 0-based   *)
(* as in the code.  A row taken from domPool is cloned empty and rendered  *)
(* anew (430-449), so the pool does not show in the rows and is left out.  *)
(* renders is history: the render calls of the handler that ran last;      *)
(* events counts the scroll events and data updates handled so far.        *)
(***************************************************************************)
Min2(a, b) == IF a < b THEN a ELSE b

Max2(a, b) == IF a > b THEN a ELSE b

Abs(n) == IF n < 0 THEN 0 - n ELSE n

\* Math.ceil(a / b) for a >= 0, b > 0
CeilDiv(a, b) == (a + b - 1) \div b

\* the constructor and initContainer (main.js 136-192)
NewVirtualScrollManager(itemHeight, maxHeight) ==
    [isLoading |-> FALSE, loadMoreRetryCount |-> 0,
     manager |-> TRUE,
     itemHeight |-> itemHeight,
     visibleCount |-> 0,
     startIndex |-> 0,
     endIndex |-> 0,
     scrollTop |-> 0,
     totalItems |-> 0,
     data |-> <<>>,
     scrollVelocity |-> 0,
     maxHeight |-> maxHeight,
     clientHeight |-> 0,
     containerScrollTop |-> 0,
     topHeight |-> 0,
     bottomHeight |-> 0,
     dom |-> <<>>,
     frames |-> <<>>,
     renders |-> <<>>,
     events |-> 0]

\* the height of the container's content: the spacers and the rows
ContentHeight(v) == v.topHeight + Len(v.dom) * v.itemHeight + v.bottomHeight

\* container.scrollTop as the browser reports it: never past the content
ContainerScrollTop(v) ==
    Min2(v.containerScrollTop, Max2(0, ContentHeight(v) - v.clientHeight))

\* createOrReuseRow (430-449): the row of `item` at `index`
createOrReuseRow(item, index) == [index |-> index, itemId |-> item.id, item |-> item]

\* the rows of data.slice(startIndex, endIndex), each at its index
VisibleRows(v) ==
    LET visibleData == Slice(v.data, v.startIndex, v.endIndex)
    IN  [i \in 1..Len(visibleData) |->
            createOrReuseRow(visibleData[i], v.startIndex + i - 1)]

NodeIndices(dom) == {dom[i].index : i \in 1..Len(dom)}

\* the spacers set and the rows `removed` taken out, the rows `created`
\* put in, which leaves the rows dom
Rendered(v, path, removed, created, dom) ==
    [v EXCEPT !.topHeight = v.startIndex * v.itemHeight,
              !.bottomHeight = (Len(v.data) - v.endIndex) * v.itemHeight,
              !.dom = dom,
              !.renders = Append(@, [path |-> path,
                                     removed |-> NodeIndices(removed),
                                     created |-> NodeIndices(created)])]

\* renderVisibleItems (325-363): every row is removed, the window is built anew
renderVisibleItems(v) == Rendered(v, "full", v.dom, VisibleRows(v), VisibleRows(v))

\* renderVisibleItemsIncremental (370-426): rows outside the window are
\* removed, the indices with no row get one, and the new rows are inserted
\* before the first row left (before the bottom spacer when none is left)
renderVisibleItemsIncremental(v, oldStartIndex, oldEndIndex) ==
    LET outside(node) == node.index < v.startIndex \/ node.index >= v.endIndex
        removed == SelectSeq(v.dom, outside)
        left == SelectSeq(v.dom, LAMBDA node : ~outside(node))
        existingIndices == NodeIndices(left)
        fragment == SelectSeq(VisibleRows(v), LAMBDA node : node.index \notin existingIndices)
        found == {i \in 1..Len(left) : left[i].index >= v.startIndex}
        insertBefore == IF found = {} THEN Len(left) + 1
                        ELSE CHOOSE i \in found : \A j \in found : i <= j
    IN  Rendered(v, "incremental", removed, fragment,
                 IF fragment = <<>> THEN left
                 ELSE SubSeq(left, 1, insertBefore - 1) \o fragment
                          \o SubSeq(left, insertBefore, Len(left)))

\* the window of the scroll position scrollTop (270-281, 674-684)
NewStartIndex(v, scrollTop) == Max2(0, (scrollTop \div v.itemHeight) - bufferCount)

VisibleCount(v) == CeilDiv(v.clientHeight, v.itemHeight)

\* the window with no end but the end of the data (for comparison)
NewEndIndexOfData(v, scrollTop) == Len(v.data)

NewEndIndex(v, scrollTop) ==
    Min2(Len(v.data), NewStartIndex(v, scrollTop) + VisibleCount(v) + bufferCount * 2)

\* the test of 291-293 and 696-698
SmallShift(v, oldStartIndex, oldEndIndex) ==
    /\ oldStartIndex # -1
    /\ Abs(v.startIndex - oldStartIndex) < v.visibleCount * 2
    /\ Abs(v.endIndex - oldEndIndex) < v.visibleCount * 2

\* updateRenderRange (267-301); applyUniformRowHeight only sets styles
updateRenderRange(v) ==
    LET newStartIndex == NewStartIndex(v, v.scrollTop)
        newEndIndex == NewEndIndex(v, v.scrollTop)
        v1 == [v EXCEPT !.visibleCount = VisibleCount(v)]
        v2 == [v1 EXCEPT !.startIndex = newStartIndex, !.endIndex = newEndIndex]
    IN  IF newStartIndex # v.startIndex \/ newEndIndex # v.endIndex
        THEN IF SmallShift(v2, v.startIndex, v.endIndex)
             THEN renderVisibleItemsIncremental(v2, v.startIndex, v.endIndex)
             ELSE renderVisibleItems(v2)
        ELSE v1

\* hasDataChanged (611-626)
hasDataChanged(oldData, newData) ==
    \/ Len(oldData) # Len(newData)
    \/ \E i \in 1..Len(oldData) :
           \/ oldData[i].id # newData[i].id
           \/ oldData[i].process_status # newData[i].process_status
           \/ oldData[i].claim_total # newData[i].claim_total

\* new Map(data.map((item, index) => [item.id, index])).get(id): the last
\* index of the id, -1 for undefined
IdIndex(data, id) ==
    LET found == {i \in 1..Len(data) : data[i].id = id}
    IN  IF found = {} THEN -1 ELSE (CHOOSE i \in found : \A j \in found : j <= i) - 1

\* calculateChangedRange (629-668); ratio is count / total, 1.0 when total = 0
calculateChangedRange(oldData, newData) ==
    IF Len(oldData) = 0
    THEN [start |-> 0, end |-> Len(newData), count |-> Len(newData), total |-> 0]
    ELSE LET moved == {i \in 0..(Len(newData) - 1) : IdIndex(oldData, newData[i + 1].id) # i}
             gone == {Min2(i, Len(newData) - 1) :
                         i \in {j \in 0..(Len(oldData) - 1) :
                                    IdIndex(newData, oldData[j + 1].id) = -1}}
             changedIndices == moved \cup gone
         IN  [start |-> IF changedIndices = {} THEN 0
                        ELSE CHOOSE i \in changedIndices : \A j \in changedIndices : i <= j,
              end |-> IF changedIndices = {} THEN Len(newData)
                      ELSE (CHOOSE i \in changedIndices : \A j \in changedIndices : j <= i) + 1,
              count |-> Cardinality(changedIndices),
              total |-> Len(newData)]

\* changedRange.ratio < 0.3 (771)
RatioBelowThreshold(changedRange) ==
    changedRange.total > 0 /\ changedRange.count * 10 < 3 * changedRange.total

\* updateChangedItems (671-718)
updateChangedItems(v, changedRange) ==
    LET scrollTop == ContainerScrollTop(v)
        v0 == [v EXCEPT !.scrollTop = scrollTop]
        newStartIndex == NewStartIndex(v0, scrollTop)
        newEndIndex == NewEndIndex(v0, scrollTop)
        overlapStart == Max2(changedRange.start, newStartIndex)
        overlapEnd == Min2(changedRange.end, newEndIndex)
        v1 == [v0 EXCEPT !.visibleCount = VisibleCount(v0),
                         !.startIndex = newStartIndex, !.endIndex = newEndIndex]
    IN  IF overlapStart < overlapEnd
        THEN IF SmallShift(v1, v.startIndex, v.endIndex)
             THEN renderVisibleItemsIncremental(v1, v.startIndex, v.endIndex)
             ELSE renderVisibleItems(v1)
        ELSE [v1 EXCEPT !.topHeight = v1.startIndex * v1.itemHeight,
                        !.bottomHeight = (Len(v1.data) - v1.endIndex) * v1.itemHeight,
                        !.renders = Append(@, [path |-> "spacers", removed |-> {},
                                               created |-> {}])]

\* cancelAnimationFrame of the callback the field `handle` holds
cancelAnimationFrame(v, handle) ==
    [v EXCEPT !.frames = SelectSeq(@, LAMBDA frame : frame.handle # handle)]

requestAnimationFrame(v, frame) == [v EXCEPT !.frames = Append(@, frame)]

\* updateData (723-798) up to its requestAnimationFrame; the frames that
\* only call applyUniformRowHeight set styles and are left out
updateData(v, newData, totalItems, forceRefresh) ==
    LET savedScrollTop == ContainerScrollTop(v)
        oldData == v.data
        dataChanged == hasDataChanged(oldData, newData)
        v1 == [v EXCEPT !.data = newData, !.totalItems = totalItems,
                        !.scrollTop = savedScrollTop]
    IN  IF ~dataChanged /\ ~forceRefresh THEN v1
        ELSE IF forceRefresh
        THEN LET v2 == renderVisibleItems(updateRenderRange(v1))
             IN  IF savedScrollTop > 0
                 THEN [v2 EXCEPT !.containerScrollTop = savedScrollTop] ELSE v2
        ELSE requestAnimationFrame(
                 cancelAnimationFrame(v1, "renderAnimationFrame"),
                 [handle |-> "renderAnimationFrame", callback |-> "updateData",
                  oldData |-> oldData, newData |-> newData,
                  savedScrollTop |-> savedScrollTop])

\* the callback updateData gave to requestAnimationFrame (766-796)
updateDataFrame(v, frame) ==
    LET changedRange == calculateChangedRange(frame.oldData, frame.newData)
    IN  IF RatioBelowThreshold(changedRange) /\ Len(frame.oldData) > 0
        THEN [updateChangedItems(v, changedRange)
                 EXCEPT !.containerScrollTop = frame.savedScrollTop]
        ELSE requestAnimationFrame(
                 updateRenderRange(
                     [v EXCEPT !.startIndex = frame.savedScrollTop \div v.itemHeight]),
                 [handle |-> "none", callback |-> "restoreScroll",
                  oldData |-> <<>>, newData |-> <<>>,
                  savedScrollTop |-> frame.savedScrollTop])

\* checkLoadMore (804-826); the multiplier 1 + min(scrollVelocity * 10, 2)
\* is taken with scrollVelocity in px/ms rounded down
checkLoadMore(c) ==
    LET v == c.vsm
        distanceToBottom == v.totalItems * v.itemHeight - (v.scrollTop + v.clientHeight)
        velocityMultiplier == 1 + Min2(v.scrollVelocity * 10, 2)
    IN  IF Len(v.data) >= v.totalItems \/ v.isLoading THEN c
        ELSE IF 10 * distanceToBottom
                  < Max2(10 * baseTriggerDistance, 3 * v.clientHeight) * velocityMultiplier
             THEN loadMoreData(c)
             ELSE c

\* one callback of an animation frame
runFrame(c, frame) ==
    IF frame.callback = "scroll"
    THEN checkLoadMore([c EXCEPT !.vsm = updateRenderRange(@)])
    ELSE IF frame.callback = "updateData"
    THEN [c EXCEPT !.vsm = updateDataFrame(@, frame)]
    ELSE [c EXCEPT !.vsm.containerScrollTop = frame.savedScrollTop]

\* the callbacks `frames` in the order they were requested
RECURSIVE runFrames(_, _)
runFrames(c, frames) ==
    IF frames = <<>> THEN c
    ELSE runFrames(runFrame(c, Head(frames)), Tail(frames))

\* an animation frame: the callbacks requested before it run, those they
\* request wait for the next one
animationFrame(c) ==
    runFrames([c EXCEPT !.vsm.frames = <<>>, !.vsm.renders = <<>>], c.vsm.frames)

\* the scroll listener of bindEvents (196-228); throttled is the outcome of
\* now - lastRenderTime < renderInterval
handleScroll(v, scrollTop, scrollVelocity, throttled) ==
    LET handle == IF throttled THEN "scrollThrottleTimer" ELSE "renderAnimationFrame"
        v1 == [v EXCEPT !.containerScrollTop = scrollTop, !.scrollTop = scrollTop,
                        !.scrollVelocity = scrollVelocity, !.renders = <<>>]
    IN  requestAnimationFrame(cancelAnimationFrame(v1, handle),
                              [handle |-> handle, callback |-> "scroll",
                               oldData |-> <<>>, newData |-> <<>>, savedScrollTop |-> 0])

\* destroy (940-980)
destroy(v) ==
    [cancelAnimationFrame(cancelAnimationFrame(v, "scrollThrottleTimer"),
                          "renderAnimationFrame")
        EXCEPT !.manager = FALSE, !.data = <<>>, !.dom = <<>>,
               !.topHeight = 0, !.bottomHeight = 0, !.renders = <<>>]

\* renderDatabase (main.js 1246-1335) with the list view shown
renderDatabase(c, resetScroll) ==
    LET data == c.ListState.data
        v == c.vsm
        dynamicHeight == Min2(Len(data) * TABLE_ROW_HEIGHT + 20, v.maxHeight)
        fresh == [NewVirtualScrollManager(TABLE_ROW_HEIGHT, v.maxHeight)
                     EXCEPT !.frames = destroy(v).frames, !.events = v.events]
        v1 == IF resetScroll \/ ~v.manager THEN fresh ELSE [v EXCEPT !.renders = <<>>]
        v2 == updateData([v1 EXCEPT !.clientHeight = dynamicHeight],
                         data, c.ListState.totalCount, TRUE)
    IN  IF Len(data) = 0
        THEN [c EXCEPT !.vsm = IF v.manager THEN destroy(v) ELSE v]
        ELSE [c EXCEPT !.vsm = IF resetScroll THEN [v2 EXCEPT !.containerScrollTop = 0]
                               ELSE v2]

\* the rows the renderer is given: ids in list order, the rows at the
\* positions `paid` with another process_status
ListRows(ids, paid) ==
    [i \in 1..Len(ids) |->
        [id |-> ids[i],
         process_status |-> IF i \in paid THEN "paid" ELSE "pending",
         claim_total |-> 0]]

Lengths == {0, 1, MaxRows - 1, MaxRows}

\* the first n rows of the list
FirstRows(n) == ListRows([i \in 1..n |-> i], {})

\* no row, one row, all rows but the last, MaxRows rows; MaxRows rows with the status of the first
\* row changed, with the last row replaced by another, and MaxRows other rows
Datasets ==
    {FirstRows(n) : n \in Lengths}
        \cup {ListRows([i \in 1..MaxRows |-> i], {1}),
              ListRows([i \in 1..MaxRows |-> IF i = MaxRows THEN 100 + i ELSE i], {}),
              ListRows([i \in 1..MaxRows |-> 100 + i], {})}

\* window.innerHeight - 400 (1297)
MaxHeights == {rows * TABLE_ROW_HEIGHT : rows \in 0..MaxViewportRows}

\* scrollVelocity in px/ms, rounded down; it is read by checkLoadMore
\* only, and only while rows remain to be loaded (805, 821)
Velocities(v) == IF Len(v.data) < v.totalItems THEN {0, 1} ELSE {0}

\* the positions the container can be scrolled to: row boundaries and the end
ScrollTops(v) ==
    LET maxScrollTop == Max2(0, ContentHeight(v) - v.clientHeight)
    IN  {top \in {row * v.itemHeight : row \in 0..MaxRows} : top <= maxScrollTop}
            \cup {maxScrollTop}

\* lastOp of the renderer's handlers: callbacks are the callbacks an
\* animation frame ran
ScrollOp(name, callbacks) ==
    [op |-> name, id |-> 0, wrote |-> "none", toasted |-> FALSE, callbacks |-> callbacks]

CanHandle == vsm.events < MaxEvents

Handled(c) == [c EXCEPT !.vsm.events = @ + 1]

\* the user scrolls the list
HandleScroll ==
    /\ CanHandle
    /\ vsm.manager
    /\ \E scrollTop \in ScrollTops(vsm), scrollVelocity \in Velocities(vsm), throttled \in BOOLEAN :
           Commit(Handled([Client EXCEPT
                      !.vsm = handleScroll(@, scrollTop, scrollVelocity, throttled)]))
    /\ lastOp' = ScrollOp("handleScroll", <<>>)
    /\ UNCHANGED <<remote, deleted, remoteWrites, channel, now, rt, rtFetches, writerVars>>

AnimationFrame ==
    /\ vsm.frames # <<>>
    /\ Commit(animationFrame(Client))
    /\ lastOp' = ScrollOp("animationFrame", [k \in 1..Len(vsm.frames) |-> vsm.frames[k].callback])
    /\ UNCHANGED <<remote, deleted, remoteWrites, channel, now, rt, rtFetches, writerVars>>

\* updateData(data, totalCount) as loadMoreData calls it (841)
UpdateData ==
    /\ CanHandle
    /\ vsm.manager
    /\ \E newData \in Datasets :
           Commit(Handled([Client EXCEPT
                      !.vsm = updateData([@ EXCEPT !.renders = <<>>],
                                         newData, Len(newData), FALSE)]))
    /\ lastOp' = ScrollOp("updateData", <<>>)
    /\ UNCHANGED <<remote, deleted, remoteWrites, channel, now, rt, rtFetches, writerVars>>

\* a list request has assigned ListState.data and calls renderDatabase
\* (database.js 567-578)
RenderDatabase ==
    /\ CanHandle
    /\ \E data \in Datasets, resetScroll \in BOOLEAN :
           Commit(Handled(renderDatabase([Client EXCEPT !.ListState.data = data,
                                                        !.ListState.totalCount = Len(data)],
                                         resetScroll)))
    /\ lastOp' = ScrollOp("renderDatabase", <<>>)
    /\ UNCHANGED <<remote, deleted, remoteWrites, channel, now, rt, rtFetches, writerVars>>

(***************************************************************************)
(* The session after sign-in: database and wh_claims_db_pro hold the table *)
(* as loadDataFromSupabase read it (entry_date descending), the realtime   *)
(* channel is subscribed, no list request has been issued.                 *)
(***************************************************************************)
InitListState ==
    [data |-> <<>>, totalCount |-> 0,
     pagination |-> [page |-> 1, pageSize |-> PageSize],
     filters |-> [status |-> "all"],
     sorting |-> [col |-> "entry_date", asc |-> FALSE, isUserDefined |-> FALSE],
     isLoading |-> FALSE]

InitClient ==
    [ListState |-> InitListState,
     fetchRequestId |-> 0,
     currentFetchController |-> 0,
     abortedControllers |-> {},
     requests |-> <<>>,
     requestCache |-> <<>>,
     lsCache |-> <<>>,
     cacheStats |-> [memoryHits |-> 0, localStorageHits |-> 0, misses |-> 0,
                     totalRequests |-> 0],
     dbConnectionState |-> "connected",
     lastToast |-> "none",
     database |-> Reverse([i \in 1..MaxRecs |-> InitRemote[i]]),
     localDb |-> Reverse([i \in 1..MaxRecs |-> InitRemote[i]]),
     vsm |-> [isLoading |-> FALSE, loadMoreRetryCount |-> 0],
     closeTimer |-> FALSE,
     saveTimers |-> <<>>,
     cacheCalls |-> 0,
     storageReads |-> {},
     warmup |-> [called |-> FALSE, timers |-> <<>>, preloads |-> <<>>, before |-> NoData],
     invalidated |-> {},
     now |-> 0,
     wrote |-> "none",
     toasted |-> FALSE]

\* the realtime manager as constructed (part_005 8-18) and once subscribed
\* (62-66).  processQueueDue is the instant the pending timer is set for;
\* lastEventAt, received, processed and discarded are history: the instant
\* of the last event and the events handed to handleChange, taken into a
\* batch and dropped by unsubscribe
InitRealtime(isSubscribed) ==
    [isSubscribed |-> isSubscribed, eventQueue |-> <<>>, processQueueTimer |-> FALSE,
     refreshTimer |-> FALSE, processQueueDue |-> 0, lastEventAt |-> 0,
     received |-> 0, processed |-> 0, discarded |-> 0,
     hasChannel |-> isSubscribed, reconnectAttempts |-> 0, reconnectTimers |-> <<>>,
     stopped |-> FALSE, attempts |-> 0, delays |-> <<>>, statuses |-> 0]

\* the session with the client state c, the realtime manager m and the
\* writer state u
StartedWith(table, c, m, u) ==
    /\ remote = table
    /\ deleted = {}
    /\ remoteWrites = 0
    /\ channel = <<>>
    /\ now = c.now
    /\ ListState = c.ListState
    /\ fetchRequestId = c.fetchRequestId
    /\ currentFetchController = c.currentFetchController
    /\ abortedControllers = c.abortedControllers
    /\ requests = c.requests
    /\ requestCache = c.requestCache
    /\ lsCache = c.lsCache
    /\ cacheStats = c.cacheStats
    /\ dbConnectionState = c.dbConnectionState
    /\ lastToast = c.lastToast
    /\ database = c.database
    /\ localDb = c.localDb
    /\ vsm = c.vsm
    /\ closeTimer = c.closeTimer
    /\ saveTimers = c.saveTimers
    /\ cacheCalls = c.cacheCalls
    /\ storageReads = c.storageReads
    /\ warmup = c.warmup
    /\ invalidated = c.invalidated
    /\ rt = m
    /\ rtFetches = {}
    /\ editingModalId = 0
    /\ editingOriginalData = NoData
    /\ editForm = NoData
    /\ opening = 0
    /\ editingId = 0
    /\ claimForm = NoData
    /\ upd = u
    /\ updateCalls = 0
    /\ lastOp = [op |-> "init", id |-> 0, wrote |-> "none", toasted |-> FALSE]

Started(c, m, u) == StartedWith(InitRemote, c, m, u)

Init == Started(InitClient, InitRealtime(TRUE), IdleUpdate)

\* the descriptions getCacheKey is given: the filters of ListState (main.js
\* 15-23, ui.js 169-174, 575, 606) and those of warmupCache (247-248), which
\* have no searchMode, searchField and advancedFilters
Descriptions ==
    [page : 1..2,
     pageSize : {PageSize},
     filters : [status : {"all", "paid"},
                type : {"all"},
                search : {"", "A"},
                searchMode : {"undefined", "fuzzy", "exact"},
                searchField : {"undefined", "order_tracking_sku"},
                advancedFilters : {"undefined", "null"}],
     sorting : [col : {"entry_date"}, asc : BOOLEAN]]

InitKey ==
    \E a \in Descriptions, b \in Descriptions :
        Started(InitClient, InitRealtime(FALSE), [pc |-> "describe", a |-> a, b |-> b])

\* the cache once the pages up to page n were stored one after the other,
\* page k at instant k, each save completed
RECURSIVE PagesCached(_, _)
PagesCached(c, n) ==
    LET page == c.now
        stored == setCachedData(c, PageKey(c, page), PageData(c, page), Len(c.database))
    IN  IF page > n THEN c
        ELSE IF page = n THEN [saveTimerFired(stored, "ok") EXCEPT !.now = @ + 1]
        ELSE PagesCached(PagesCached(c, (page + n) \div 2), n)

\* ... and the pages up to page r were then read back, page k at instant
\* n + k
RECURSIVE PagesRead(_, _, _)
PagesRead(c, n, r) ==
    LET page == c.now - n
    IN  IF page > r THEN c
        ELSE IF page = r
             THEN [getCachedData(c, PageKey(c, page)).c EXCEPT !.now = @ + 1]
             ELSE PagesRead(PagesRead(c, n, (page + r) \div 2), n, r)

\* the cache layer is studied in sessions that have cached no page or as
\* many pages as a tier holds, and have read back none of them or all but
\* the last
FillSizes == {0, MAX_LOCALSTORAGE_CACHE_SIZE, MAX_CACHE_SIZE}

InitCache ==
    \E n \in FillSizes : \E r \in {0, n - 1} :
        /\ r >= 0
        /\ Started(PagesRead(PagesCached([InitClient EXCEPT !.now = 1], n), n, r),
                   InitRealtime(FALSE), IdleUpdate)

\* the session once the list request of sign-in (auth.js 219) has settled
\* with the first page
FirstPageLoaded ==
    [InitClient EXCEPT
        !.ListState.data = Slice(InitClient.database, 0, PageSize),
        !.ListState.totalCount = MaxRecs,
        !.fetchRequestId = 1,
        !.requests = <<[append |-> FALSE, forceRefresh |-> FALSE, targetPage |-> 1,
                        status |-> "all", asc |-> FALSE, start |-> 0, end |-> PageSize - 1,
                        caller |-> "signIn", signal |-> 0, transport |-> "done",
                        outcome |-> "data"]>>,
        !.cacheStats = [memoryHits |-> 0, localStorageHits |-> 0, misses |-> 1,
                        totalRequests |-> 1]]

\* the writer is studied in a session that is not subscribed to realtime
\* changes
InitWriter == Started(FirstPageLoaded, InitRealtime(FALSE), IdleUpdate)

\* the three records detectConflict is given: a record and copies of it
\* that differ from it in at most MaxChanged key fields
ConflictValues == {"#1", "1", "undefined"}

Changed(record, fields, values) ==
    [f \in DOMAIN record |->
        IF \E i \in fields : keyFields[i] = f
        THEN values[CHOOSE i \in fields : keyFields[i] = f]
        ELSE record[f]]

InitConflict ==
    \E fields \in SUBSET (1..Len(keyFields)) :
        /\ Cardinality(fields) <= MaxChanged
        /\ \E o \in [fields -> ConflictValues], cur \in [fields -> ConflictValues],
              u \in [fields -> ConflictValues] :
                Started(InitClient, InitRealtime(FALSE),
                        [pc |-> "detect",
                         originalData |-> Changed(NewRecord(1), fields, o),
                         currentRecord |-> Changed(NewRecord(1), fields, cur),
                         data |-> Changed(NewRecord(1), fields, u),
                         conflictFields |-> <<>>])

\* the list view once renderDatabase has rendered the first MaxRows rows
\* (virtualScrollManager was null before)
InitScroll ==
    \E maxHeight \in MaxHeights :
        Started(renderDatabase(
                    [InitClient EXCEPT
                        !.vsm = [NewVirtualScrollManager(TABLE_ROW_HEIGHT, maxHeight)
                                    EXCEPT !.manager = FALSE],
                        !.ListState.data = FirstRows(MaxRows),
                        !.ListState.totalCount = MaxRows],
                    FALSE),
                InitRealtime(FALSE), IdleUpdate)

\* the rows of the table that are not loaded yet when the list is rendered:
\* none, fewer rows than the trigger distance of checkLoadMore is high, more
MoreRows == {0, baseTriggerDistance \div TABLE_ROW_HEIGHT - 1,
             baseTriggerDistance \div TABLE_ROW_HEIGHT + 1}

\* the list view once renderDatabase has rendered the MaxRows rows loaded
\* so far of a table that has more
InitLoadMore ==
    \E maxHeight \in MaxHeights, more \in MoreRows :
        Started(renderDatabase(
                    [InitClient EXCEPT
                        !.vsm = [NewVirtualScrollManager(TABLE_ROW_HEIGHT, maxHeight)
                                    EXCEPT !.manager = FALSE],
                        !.ListState.data = FirstRows(MaxRows),
                        !.ListState.totalCount = MaxRows + more],
                    FALSE),
                InitRealtime(FALSE), IdleUpdate)

\* the list view and its requests, the table unchanged meanwhile
Next ==
    \/ SwitchSubTab
    \/ SortColumn
    \/ NextPage
    \/ LoadMoreData
    \/ FetchSettled

Spec == Init /\ [][Next]_vars

\* a table whose rows all have one status, and the list of that status tab
\* (or of the tab of all rows) after its two pages were loaded
TableOf(status) == [i \in RecIds |-> [NewRecord(i) EXCEPT !.process_status = status]]

TabLoaded(table, status) ==
    [InitClient EXCEPT
        !.ListState.filters.status = status,
        !.ListState.data = Reverse([i \in 1..MaxRecs |-> table[i]]),
        !.ListState.totalCount = MaxRecs,
        !.ListState.pagination.page = 2,
        !.database = Reverse([i \in 1..MaxRecs |-> table[i]]),
        !.localDb = Reverse([i \in 1..MaxRecs |-> table[i]]),
        !.fetchRequestId = 2,
        !.requests = <<[append |-> FALSE, forceRefresh |-> TRUE, targetPage |-> 1,
                        status |-> status, asc |-> FALSE, start |-> 0, end |-> PageSize - 1,
                        caller |-> "switchSubTab", signal |-> 0, transport |-> "done",
                        outcome |-> "data"],
                       [append |-> TRUE, forceRefresh |-> FALSE, targetPage |-> 2,
                        status |-> status, asc |-> FALSE, start |-> PageSize,
                        end |-> 2 * PageSize - 1,
                        caller |-> "loadMoreData", signal |-> 0, transport |-> "done",
                        outcome |-> "data"]>>,
        !.cacheStats = [memoryHits |-> 0, localStorageHits |-> 0, misses |-> 2,
                        totalRequests |-> 2]]

InitIncremental ==
    \E status \in Statuses : \E tab \in {"all", status} :
        StartedWith(TableOf(status), TabLoaded(TableOf(status), tab), InitRealtime(TRUE),
                    IdleUpdate)

\* the list view under realtime changes made by other users
NextRealtime ==
    \/ SwitchSubTab
    \/ LoadMoreData
    \/ FetchSettled
    \/ OtherWriterUpdate
    \/ HandleChange
    \/ ProcessEventQueue
    \/ RefreshTimerFires
    \/ UpdateRecordsSettled

SpecRealtime == Init /\ [][NextRealtime]_vars

\* realtime changes of single rows of a status tab whose rows are all loaded
NextIncremental ==
    \/ SwitchSubTab
    \/ FetchSettled
    \/ OtherWriterUpdate
    \/ HandleChange
    \/ ProcessEventQueue
    \/ UpdateRecordsSettled

SpecIncremental == InitIncremental /\ [][NextIncremental]_vars

\* the edit dialog, the claim form and the status change of one user while
\* other users write to the table
NextWriter ==
    \/ OpenEditModal
    \/ OpenEditModalSettled
    \/ EditFormInput
    \/ SubmitEditForm
    \/ CloseTimerFires
    \/ EditRowById
    \/ ClaimFormInput
    \/ ProcessEntry
    \/ UpdateStatus
    \/ RecordRefetched
    \/ ConflictDecision
    \/ WriteSettled
    \/ FetchSettled
    \/ OtherWriterEdits
    \/ OtherWriterDeletes

SpecWriter == InitWriter /\ [][NextWriter]_vars

\* detectConflict on its own
NextConflict == DetectConflict

SpecConflict == InitConflict /\ [][NextConflict]_vars

\* the cache layer: its functions called at chosen instants, and the sort
\* handler of the list
NextCache ==
    \/ SetCachedData
    \/ SaveTimerFires
    \/ GetCachedData
    \/ SortColumnCached
    \/ FetchSettled
    \/ Tick

SpecCache == InitCache /\ [][NextCache]_vars

\* getCacheKey on its own
NextKey == GetCacheKey

SpecKey == InitKey /\ [][NextKey]_vars

\* the list renderer under scrolling and data updates
NextScroll ==
    \/ HandleScroll
    \/ AnimationFrame
    \/ UpdateData
    \/ RenderDatabase

SpecScroll == InitScroll /\ [][NextScroll]_vars

\* the list renderer scrolled while rows remain to be loaded
\* the realtime manager under bursts of change events, from the first page
\* loaded
InitDebounce == Started(FirstPageLoaded, InitRealtime(TRUE), IdleUpdate)

NextDebounce ==
    \/ OtherWriterSaves
    \/ HandleChange
    \/ TimePasses
    \/ ProcessEventQueue
    \/ StopRealtimeSubscription

SpecDebounce == InitDebounce /\ [][NextDebounce]_vars

\* the list view with warmupCache called once; the user's actions are those
\* before the call
NextWarmup ==
    \/ ~warmup.called /\ SwitchSubTab
    \/ ~warmup.called /\ LoadMoreData
    \/ WarmupCache
    \/ WarmupPreload
    \/ FetchSettled

SpecWarmup == InitWriter /\ [][NextWarmup]_vars

(***************************************************************************)
(* Query builder: applySearchConditions (database.js 668-745).  A search  *)
(* term is a sequence of characters; a number is kept in thousandths, so   *)
(* that numerals of the same value give the same predicate.                *)
(***************************************************************************)
Chars == {"0", "1", ".", "-", "a", "A", " "}
DigitChars == {"0", "1"}

Terms == UNION {[1..n -> Chars] : n \in 0..MaxTermLen}

\* SEARCH_FIELD_MAP (config.js 92-212), in the order of its keys: the fields
\* of the default search, a date field and the numeric fields
SEARCH_FIELD_MAP ==
    <<[name |-> "order_no", type |-> "text", searchable |-> TRUE],
      [name |-> "tracking_no", type |-> "text", searchable |-> TRUE],
      [name |-> "ship_date", type |-> "date", searchable |-> TRUE],
      [name |-> "sku", type |-> "text", searchable |-> TRUE],
      [name |-> "claim_total", type |-> "number", searchable |-> TRUE],
      [name |-> "claim_qty", type |-> "number", searchable |-> TRUE]>>

\* window.SEARCH_FIELD_MAP[field], "undefined" for a name that is no key
FieldType(field) ==
    LET found == {i \in 1..Len(SEARCH_FIELD_MAP) : SEARCH_FIELD_MAP[i].name = field}
    IN  IF found = {} THEN "undefined" ELSE SEARCH_FIELD_MAP[CHOOSE i \in found : TRUE].type

\* String.prototype.trim
RECURSIVE TrimStart(_)
TrimStart(s) == IF s # <<>> /\ Head(s) = " " THEN TrimStart(Tail(s)) ELSE s

RECURSIVE TrimEnd(_)
TrimEnd(s) == IF s # <<>> /\ s[Len(s)] = " " THEN TrimEnd(SubSeq(s, 1, Len(s) - 1)) ELSE s

Trim(s) == TrimEnd(TrimStart(s))

\* String.prototype.toLowerCase
ToLowerCase(s) == [i \in 1..Len(s) |-> IF s[i] = "A" THEN "a" ELSE s[i]]

\* the longest prefix of digits
RECURSIVE DigitPrefix(_)
DigitPrefix(s) ==
    IF s # <<>> /\ Head(s) \in DigitChars THEN <<Head(s)>> \o DigitPrefix(Tail(s)) ELSE <<>>

\* the number a sequence of digits denotes
RECURSIVE DigitsValue(_)
DigitsValue(s) ==
    IF s = <<>> THEN 0
    ELSE 10 * DigitsValue(SubSeq(s, 1, Len(s) - 1)) + (IF s[Len(s)] = "1" THEN 1 ELSE 0)

\* parseFloat: leading blanks are skipped, then the longest prefix that is a
\* decimal literal is taken (sign, digits, point, digits); NaN without a
\* digit.  [nan, thousandths]
parseFloat(s) ==
    LET t == TrimStart(s)
        negative == t # <<>> /\ Head(t) = "-"
        unsigned == IF negative THEN Tail(t) ELSE t
        int == DigitPrefix(unsigned)
        rest == SubSeq(unsigned, Len(int) + 1, Len(unsigned))
        frac == IF rest # <<>> /\ Head(rest) = "." THEN DigitPrefix(Tail(rest)) ELSE <<>>
        magnitude == DigitsValue(int) * 10 ^ MaxTermLen
                        + DigitsValue(frac) * 10 ^ (MaxTermLen - Len(frac))
    IN  IF int = <<>> /\ frac = <<>> THEN [nan |-> TRUE, thousandths |-> 0]
        ELSE [nan |-> FALSE, thousandths |-> IF negative THEN 0 - magnitude ELSE magnitude]

\* 676-691: the fields to search
fieldsToSearch(searchField) ==
    IF searchField = "order_tracking_sku" THEN <<"order_no", "tracking_no", "sku">>
    ELSE IF searchField = "all"
         THEN LET keys == SelectSeq(SEARCH_FIELD_MAP,
                                    LAMBDA config : config.searchable /\ config.type # "date")
              IN  [i \in 1..Len(keys) |-> keys[i].name]
         ELSE IF FieldType(searchField) \notin {"undefined", "date"} THEN <<searchField>>
              ELSE <<>>

\* a condition of the or-list; skipped: the null that is filtered out
\* (711, 737)
Skipped == [field |-> "", op |-> "null", text |-> <<>>, number |-> 0]

NumberCondition(field, searchTerm) ==
    IF parseFloat(searchTerm).nan THEN Skipped
    ELSE [field |-> field, op |-> "eq", text |-> <<>>,
          number |-> parseFloat(searchTerm).thousandths]

\* 700-711: the condition of a field in exact mode
exactCondition(field, searchTerm) ==
    IF FieldType(field) = "number" THEN NumberCondition(field, searchTerm)
    ELSE [field |-> field, op |-> "eq", text |-> searchTerm, number |-> 0]

\* the fuzzy condition with the pattern for every field
fuzzyConditionOfText(field, searchTerm) ==
    IF FieldType(field) = "date" THEN Skipped
    ELSE [field |-> field, op |-> "ilike",
          text |-> <<"%">> \o ToLowerCase(searchTerm) \o <<"%">>, number |-> 0]

\* 719-737: the condition of a field in fuzzy mode
fuzzyCondition(field, searchTerm) ==
    IF FieldType(field) = "date" THEN Skipped
    ELSE IF FieldType(field) = "number" THEN NumberCondition(field, searchTerm)
    ELSE [field |-> field, op |-> "ilike",
          text |-> <<"%">> \o ToLowerCase(searchTerm) \o <<"%">>, number |-> 0]

\* applySearchConditions (668-745): the query is the sequence of the
\* clauses added to it
applySearchConditions(query, filters) ==
    LET searchTerm == Trim(filters.search)
        searchMode == IF filters.searchMode = "" THEN "fuzzy" ELSE filters.searchMode
        searchField == IF filters.searchField = "" THEN "all" ELSE filters.searchField
        fields == fieldsToSearch(searchField)
        mapped == [i \in 1..Len(fields) |->
                     IF searchMode = "exact" THEN exactCondition(fields[i], searchTerm)
                     ELSE fuzzyCondition(fields[i], searchTerm)]
        conditions == SelectSeq(mapped, LAMBDA condition : condition # Skipped)
    IN  IF fields = <<>> THEN query
        ELSE IF conditions # <<>> THEN Append(query, [or |-> conditions])
        ELSE query

SearchModes == {"", "fuzzy", "exact"}
SearchFields == {"", "all", "order_tracking_sku", "order_no", "ship_date", "claim_total",
                 "claim_qty", "unknown"}

\* fetchTableData calls applySearchConditions for a term that is not blank
\* (555-556)
InitSearch ==
    \E search \in Terms, searchMode \in SearchModes, searchField \in SearchFields :
        /\ Trim(search) # <<>>
        /\ Started(InitClient, InitRealtime(FALSE),
                   [pc |-> "search",
                    filters |-> [search |-> search, searchMode |-> searchMode,
                                 searchField |-> searchField],
                    query |-> <<>>])

ApplySearchConditions ==
    /\ upd.pc = "search"
    /\ upd' = [upd EXCEPT !.pc = "searched",
                          !.query = applySearchConditions(<<>>, upd.filters)]
    /\ lastOp' = [op |-> "applySearchConditions", id |-> 0, wrote |-> "none",
                  toasted |-> FALSE]
    /\ UNCHANGED <<remote, deleted, remoteWrites, channel, now, clientVars, rt, rtFetches,
                   editingModalId, editingOriginalData, editForm, opening, editingId,
                   claimForm, updateCalls>>

\* applySearchConditions on its own
NextSearch == ApplySearchConditions

SpecSearch == InitSearch /\ [][NextSearch]_vars

\* the subscription: status callbacks, reconnection, sign-out and sign-in
NextReconnect ==
    \/ ChannelStatus
    \/ ReconnectTimerFires
    \/ StopRealtimeSubscription
    \/ InitRealtimeSubscription

SpecReconnect == InitDebounce /\ [][NextReconnect]_vars

\* the subscription with changes by other users and a sign-out
NextStop ==
    \/ OtherWriterUpdate
    \/ HandleChange
    \/ ProcessEventQueue
    \/ RefreshTimerFires
    \/ FetchSettled
    \/ rt.statuses < MaxStopStatuses /\ ChannelStatus
    \/ ReconnectTimerFires
    \/ StopRealtimeSubscription
    \/ InitRealtimeSubscription

SpecStop == InitDebounce /\ [][NextStop]_vars

\* the cache with its entries set, read and cleared
NextInvalidate ==
    \/ SetCachedData
    \/ SaveTimerFires
    \/ GetCachedData
    \/ ClearAllCache
    \/ ClearCacheByFilters
    \/ Tick

SpecInvalidate == InitCache /\ [][NextInvalidate]_vars

\* the edit dialog: opened, edited, cancelled, submitted, and opened again
\* while the timer of the last close is still pending
NextDialog ==
    \/ OpenEditModal
    \/ OpenAnotherEditModal
    \/ OpenEditModalSettled
    \/ EditFormInput
    \/ CloseEditModal
    \/ CloseTimerFires
    \/ SubmitEditForm
    \/ RecordRefetched
    \/ WriteSettled
    \/ FetchSettled

SpecDialog == InitWriter /\ [][NextDialog]_vars

NextLoadMore ==
    \/ HandleScroll
    \/ AnimationFrame

SpecLoadMore == InitLoadMore /\ [][NextLoadMore]_vars

(***************************************************************************)
(* Properties of the fetch coordinator.                                    *)
(***************************************************************************)
Settled(r) == requests[r].transport = "done"

\* the rows and the count the remote table answers request r with
Answer(r) == QueryResult(requests[r], remote, deleted)

IsSuffix(t, s) == Len(t) <= Len(s) /\ SubSeq(s, Len(s) - Len(t) + 1, Len(s)) = t

HoldsAnswerOf(r) ==
    /\ ListState.totalCount = Answer(r).count
    /\ IF requests[r].append THEN IsSuffix(Answer(r).data, ListState.data)
       ELSE ListState.data = Answer(r).data

\* C1: when request R2 was issued after R1 and both have settled, R2 being
\* the latest request and answered with rows, ListState holds the rows and
\* the total count of R2, whichever of the two settled first.
C1_StaleResponseRejected ==
    \A r1, r2 \in 1..Len(requests) :
        (/\ r1 < r2
         /\ r2 = fetchRequestId
         /\ Settled(r1) /\ Settled(r2)
         /\ requests[r2].outcome = "data")
        => HoldsAnswerOf(r2)

\* R1 settled with rows after R2 had settled, and the two answers differ
C1_Witness ==
    /\ lastOp.op = "fetchSettled"
    /\ lastOp.id < fetchRequestId
    /\ requests[lastOp.id].outcome = "data"
    /\ Settled(fetchRequestId)
    /\ requests[fetchRequestId].outcome = "data"
    /\ ~requests[fetchRequestId].append
    /\ Answer(lastOp.id).data # Answer(fetchRequestId).data

\* C2: every assignment to ListState.data / ListState.totalCount is made by
\* a handler that runs for a request id and that id is the latest one.
C2_WritesUnderLatestIdCheck ==
    lastOp.wrote # "none" => (lastOp.id # 0 /\ lastOp.id = fetchRequestId)

\* C5: once a non-append request has committed its rows, the memory tier
\* holds an entry under the key of its query.
C5_FetchResultCached ==
    (/\ lastOp.op = "fetchSettled"
     /\ lastOp.wrote = "fetch"
     /\ ~requests[lastOp.id].append)
    => CacheIndex(requestCache,
                  getCacheKey(requests[lastOp.id].targetPage, ListState.pagination.pageSize,
                              ListState.filters, ListState.sorting), 1) # 0

\* C6: the settling of a request that is no longer the latest changes
\* neither ListState (rows, count, loading flag) nor the connection state,
\* and shows no notification.
C6_StaleSettleIsInert ==
    [][(lastOp'.op = "fetchSettled" /\ lastOp'.id # fetchRequestId)
         => (/\ ListState' = ListState
             /\ dbConnectionState' = dbConnectionState
             /\ lastToast' = lastToast
             /\ ~lastOp'.toasted)]_vars

\* C7: a request that is not the latest one has no pending transport: it
\* was aborted when its successor was issued, or it had settled.
C7_SupersededTransportAborted ==
    \A r \in 1..Len(requests) :
        r # fetchRequestId => requests[r].transport # "pending"

\* C8: a step that dispatches a request leaves the loading flag true, and
\* the loading flag goes from true to false only in the settling of the
\* request that is the latest.
C8_LoadingFlag ==
    [][/\ Len(requests') > Len(requests) => ListState'.isLoading
       /\ (ListState.isLoading /\ ~ListState'.isLoading)
            => (lastOp'.op = "fetchSettled" /\ lastOp'.id = fetchRequestId)]_vars

\* a superseded request has settled and the flag is still set for the latest
C8_Witness ==
    /\ lastOp.op = "fetchSettled"
    /\ lastOp.id < fetchRequestId
    /\ requests[fetchRequestId].transport = "pending"
    /\ ListState.isLoading

(***************************************************************************)
(* Properties of the conflict-aware writer.                                *)
(***************************************************************************)
\* C3: when another writer has updated the record between the re-fetch of
\* updateDataInSupabase and its write, the call reports a conflict, starts
\* a forced refetch of the list and returns failure.
C3_LateConflictReported ==
    (upd.pc = "done" /\ upd.raced) =>
        (~upd.result /\ upd.toast = "modified_by_other" /\ upd.refetch)

\* C4: on every update path (edit dialog, claim form, status change) a
\* write that replaces a value another user has stored since the user's form
\* was filled is sent only after the user has decided in the conflict dialog.
C4_ConflictsPresentedOnEveryPath ==
    (upd.pc \in {"write", "done"} /\ upd.writeSent /\ Len(upd.overwrites) > 0) =>
        upd.decision \in {"keep_mine", "take_current"}

FlaggedFields == {upd.conflictFields[j].field : j \in 1..Len(upd.conflictFields)}

NoSideEffect ==
    UNCHANGED <<remote, deleted, database, localDb, ListState, requestCache, lsCache,
                requests, fetchRequestId>>

\* C10: the step of updateDataInSupabase that detects a conflict sends no
\* write and opens the dialog, and the step in which the user cancels the
\* dialog returns failure; both leave the remote table, the local copies of
\* the records, ListState and the caches as they are.
C10_CancelHasNoSideEffects ==
    [][ /\ (upd.pc = "refetch" /\ upd'.pc = "dialog") =>
                (NoSideEffect /\ ~upd'.writeSent /\ ~upd'.applied)
        /\ (upd.pc = "dialog" /\ upd'.decision = "cancel") =>
                (NoSideEffect /\ ~upd'.writeSent /\ ~upd'.applied
                 /\ upd'.pc = "done" /\ ~upd'.result)
        /\ (upd.pc = "dialog" /\ upd'.pc = "dialog") => ~upd'.writeSent ]_vars

\* the user has cancelled the dialog of a conflict and the call has returned
C10_Witness ==
    /\ upd.pc = "done"
    /\ upd.decision = "cancel"
    /\ Len(upd.conflictFields) > 0
    /\ ~upd.result

(***************************************************************************)
(* Properties of the cache layer.                                          *)
(***************************************************************************)
\* the copy a tier holds under key, NoEntry for none
EntryOf(cache, key) ==
    LET i == CacheIndex(cache, key, 1) IN IF i = 0 THEN NoEntry ELSE cache[i]

TTLOf(tier) == IF tier = "memory" THEN CACHE_TTL ELSE LOCALSTORAGE_CACHE_TTL

\* C11: getCachedData answers by the age of the copies the tiers hold at the
\* call: it never returns a copy older than the time to live of the tier
\* that answers; a copy of the memory tier younger than CACHE_TTL is
\* returned; a copy of the persistent tier younger than
\* LOCALSTORAGE_CACHE_TTL makes the call return an entry; and the call
\* reports the key absent when every tier that holds a copy holds one older
\* than its time to live.
C11_EntriesLiveForTheirTTL ==
    [][lastOp'.op = "getCachedData"
       => LET inMemory == EntryOf(requestCache, lastOp'.key)
              inStorage == EntryOf(lsCache, lastOp'.key)
              cached == lastOp'.cached
          IN  /\ Hit(cached) => now - cached.timestamp <= TTLOf(lastOp'.tier)
              /\ (Hit(inMemory) /\ now - inMemory.timestamp < CACHE_TTL)
                    => (/\ Hit(cached)
                        /\ lastOp'.tier = "memory"
                        /\ cached.data = inMemory.data
                        /\ cached.timestamp = inMemory.timestamp)
              /\ (Hit(inStorage) /\ now - inStorage.timestamp < LOCALSTORAGE_CACHE_TTL)
                    => Hit(cached)
              /\ (/\ Hit(inMemory) => now - inMemory.timestamp > CACHE_TTL
                  /\ Hit(inStorage) => now - inStorage.timestamp > LOCALSTORAGE_CACHE_TTL)
                    => ~Hit(cached)]_vars

\* a call made one millisecond before the copy of the memory tier reaches
\* CACHE_TTL returned that copy
C11_Witness ==
    /\ lastOp.op = "getCachedData"
    /\ lastOp.tier = "memory"
    /\ Hit(lastOp.cached)
    /\ now - lastOp.cached.timestamp = CACHE_TTL - 1

\* C12: an entry that a step removes from the memory tier while it is not
\* older than CACHE_TTL (the tier being over its cap) was last accessed no
\* later than every entry the step leaves in the tier: a read by
\* getCachedData counts, so an entry read after its insertion outlives an
\* entry inserted before it and never read.
C12_MemoryEvictsLeastRecentlyAccessed ==
    [][\A i \in 1..Len(requestCache) :
          (/\ ~Hit(EntryOf(requestCache', requestCache[i].key))
           /\ ~(now - requestCache[i].timestamp > CACHE_TTL))
          => \A j \in 1..Len(requestCache') :
                requestCache[i].lastAccessed <= requestCache'[j].lastAccessed]_vars

\* the memory tier was over its cap after a setCachedData: the first page,
\* inserted first and read since, is kept and the second page, inserted
\* after it and never read, is gone
C12_Witness ==
    /\ lastOp.op = "setCachedData"
    /\ Len(requestCache) = MAX_CACHE_SIZE
    /\ Hit(EntryOf(requestCache, PageKey(Client, 1)))
    /\ EntryOf(requestCache, PageKey(Client, 1)).timestamp = 1
    /\ EntryOf(requestCache, PageKey(Client, 1)).lastAccessed > MAX_CACHE_SIZE
    /\ ~Hit(EntryOf(requestCache, PageKey(Client, 2)))

\* C13: whatever cache function ran last, the memory tier holds at most
\* MAX_CACHE_SIZE entries.
C13_MemoryWithinCap == Len(requestCache) <= MAX_CACHE_SIZE

\* C14: once a save to the persistent tier has completed, the tier holds at
\* most MAX_LOCALSTORAGE_CACHE_SIZE entries.
C14_StorageWithinCap ==
    lastOp.op = "saveCacheToLocalStorage" => Len(lsCache) <= MAX_LOCALSTORAGE_CACHE_SIZE

\* the instant of the last access to a copy of the persistent tier: its
\* save, or the last read the tier answered with it
LastAccess(entry, reads) ==
    LET at == {entry.timestamp} \cup
              {r.at : r \in {x \in reads : x.key = entry.key /\ x.at >= entry.timestamp}}
    IN  CHOOSE t \in at : \A u \in at : u <= t

\* C15: a copy that a step removes from the persistent tier while it is not
\* older than LOCALSTORAGE_CACHE_TTL (the tier being over its cap) was last
\* accessed no later than every copy the step leaves in the tier, a read
\* answered by the tier being an access.
C15_StorageEvictsLeastRecentlyAccessed ==
    [][\A i \in 1..Len(lsCache) :
          (/\ ~Hit(EntryOf(lsCache', lsCache[i].key))
           /\ ~(now - lsCache[i].timestamp > LOCALSTORAGE_CACHE_TTL))
          => \A j \in 1..Len(lsCache') :
                LastAccess(lsCache[i], storageReads)
                    <= LastAccess(lsCache'[j], storageReads')]_vars

\* the entries of a tier stored for the filters and the sort of a list state
ForQuery(cache, ls) ==
    {i \in 1..Len(cache) : /\ cache[i].key.status = ls.filters.status
                           /\ cache[i].key.col = ls.sorting.col
                           /\ cache[i].key.asc = ls.sorting.asc}

\* C16: once sortColumn has changed the sort, neither tier holds an entry
\* stored for the current filters under the previous sort.
C16_SortChangeInvalidatesOldSort ==
    [][(lastOp'.op = "sortColumn" /\ ListState'.sorting # ListState.sorting)
       => (/\ ForQuery(requestCache', ListState) = {}
           /\ ForQuery(lsCache', ListState) = {})]_vars

\* C17: the keys of two descriptions are equal exactly when fetchTableData
\* builds the same query for the two.
C17_KeyEqualIffSameQuery ==
    upd.pc = "keyed" => ((upd.keyA = upd.keyB) <=> (QueryOf(upd.a) = QueryOf(upd.b)))

(***************************************************************************)
(* Properties of the list renderer.                                        *)
(***************************************************************************)
\* C18: whatever the scroll position and the number of rows of the data
\* (none, one, more than a window), the container never holds more rows
\* than visibleCount + 2 * bufferCount, after a scroll as after a data update.
C18_RowsWithinWindow == Len(vsm.dom) <= vsm.visibleCount + 2 * bufferCount

\* a scrolled list of more rows than the window holds, the window full
C18_Witness ==
    /\ lastOp.op = "animationFrame"
    /\ vsm.startIndex > 0
    /\ Len(vsm.data) > vsm.endIndex
    /\ Len(vsm.dom) = vsm.visibleCount + 2 * bufferCount
    /\ vsm.visibleCount > 0

\* the indices at which newData holds another row than oldData: another id,
\* process_status or claim_total, or a row where oldData had none
ChangedRows(oldData, newData) ==
    {i \in 0..(Len(newData) - 1) :
        \/ i >= Len(oldData)
        \/ hasDataChanged(<<oldData[i + 1]>>, <<newData[i + 1]>>)}

\* the rows the render calls of the last handler created
Replaced(v) == UNION {v.renders[j].created : j \in 1..Len(v.renders)}

\* C19: when updateData was given new rows and its rendering has run, then
\* if fewer than 30% of the rows changed, the rows replaced in the container
\* are exactly the changed rows it shows, and otherwise every row of the
\* container was replaced and shows the row of the new data at its index.
C19_UpdateReplacesChangedRows ==
    [][\A k \in 1..Len(vsm.frames) :
          (/\ lastOp'.op = "animationFrame"
           /\ vsm.frames[k].callback = "updateData"
           /\ vsm'.data = vsm.frames[k].newData)
          => LET changed == ChangedRows(vsm.frames[k].oldData, vsm.frames[k].newData)
                 shown == NodeIndices(vsm'.dom)
             IN  IF Len(vsm'.data) > 0 /\ Cardinality(changed) * 10 < 3 * Len(vsm'.data)
                 THEN Replaced(vsm') = changed \cap shown
                 ELSE /\ Replaced(vsm') = shown
                      /\ \A i \in 1..Len(vsm'.dom) :
                            /\ vsm'.dom[i].index < Len(vsm'.data)
                            /\ vsm'.dom[i].item = vsm'.data[vsm'.dom[i].index + 1]]_vars

\* C20: when the animation frame of a scroll moves the window, then if
\* both ends move by fewer than 2 * visibleCount rows the renderer removes
\* just the rows that are outside the new window and creates just the rows
\* that are in the new window and were not in the old one (at most two rows
\* are touched for a shift of one row), and otherwise it removes every row
\* and creates the whole window.
C20_ScrollPatchesOrRepaints ==
    [][(/\ lastOp'.op = "animationFrame"
        /\ \A k \in 1..Len(lastOp'.callbacks) : lastOp'.callbacks[k] = "scroll"
        /\ <<vsm'.startIndex, vsm'.endIndex>> # <<vsm.startIndex, vsm.endIndex>>)
       => LET before == NodeIndices(vsm.dom)
              oldWindow == vsm.startIndex..(vsm.endIndex - 1)
              window == vsm'.startIndex..(vsm'.endIndex - 1)
              shiftOfStart == Abs(vsm'.startIndex - vsm.startIndex)
              shiftOfEnd == Abs(vsm'.endIndex - vsm.endIndex)
              render == vsm'.renders[1]
          IN  /\ Len(vsm'.renders) = 1
              /\ IF shiftOfStart < 2 * vsm'.visibleCount /\ shiftOfEnd < 2 * vsm'.visibleCount
                 THEN /\ render.removed = before \ window
                      /\ render.created = window \ oldWindow
                      /\ (shiftOfStart <= 1 /\ shiftOfEnd <= 1)
                             => Cardinality(render.removed \cup render.created) <= 2
                 ELSE /\ render.removed = before
                      /\ render.created = window]_vars

\* C21: whenever no render is pending, the height of the top spacer, the
\* heights of the rows in the container and the height of the bottom spacer
\* add up to the height of all rows of the renderer's data
C21_SpacersSumToContent ==
    vsm.frames = <<>> => ContentHeight(vsm) = Len(vsm.data) * vsm.itemHeight
\* the distance from the bottom of the viewport to the end of the rows the
\* renderer holds
DistanceToEnd(v) == Len(v.data) * v.itemHeight - (v.scrollTop + v.clientHeight)

\* ten times the dynamic trigger distance of checkLoadMore (811-821)
TriggerDistance10(v) ==
    Max2(10 * baseTriggerDistance, 3 * v.clientHeight) * (1 + Min2(v.scrollVelocity * 10, 2))

RanCallback(op, callback) ==
    op.op = "animationFrame" /\ \E k \in 1..Len(op.callbacks) : op.callbacks[k] = callback

\* C22: when the frame of a scroll event runs while rows remain to be
\* loaded, no page load is in progress and the distance from the scroll
\* position to the end of the rows held is below the trigger distance, the
\* next page is requested in append mode
C22_LoadsNextPageNearEnd ==
    [][(/\ RanCallback(lastOp', "scroll")
        /\ Len(vsm.data) < vsm.totalItems
        /\ ~vsm.isLoading
        /\ 10 * DistanceToEnd(vsm) < TriggerDistance10(vsm))
       => /\ Len(requests') = Len(requests) + 1
          /\ requests'[Len(requests')].append
          /\ requests'[Len(requests')].targetPage = ListState.pagination.page + 1]_vars
(***************************************************************************)
(* Properties of the list requests of infinite scroll.                     *)
(***************************************************************************)
\* request r is the append request of loadMoreData and is the latest one
LatestLoadMore(r) ==
    /\ r \in 1..Len(requests)
    /\ requests[r].caller = "loadMoreData"
    /\ r = fetchRequestId

\* C23: when the latest append-mode page load fails and the retries are not
\* used up, a retry is counted and the load stays in progress until the
\* retry runs
C23_FailedLoadIsRetried ==
    [][(/\ lastOp'.op = "fetchSettled"
        /\ LatestLoadMore(lastOp'.id)
        /\ requests'[lastOp'.id].outcome \in {"error", "throw"}
        /\ vsm.loadMoreRetryCount < maxLoadMoreRetries)
       => /\ vsm'.loadMoreRetryCount = vsm.loadMoreRetryCount + 1
          /\ vsm'.isLoading]_vars
\* the rows of wh_claims_db_pro in the page window request r asked for
SnapshotPage(r) == Slice(localDb, requests[r].start, requests[r].end + 1)

FailedLatest(r, reqs) ==
    /\ r \in 1..Len(reqs)
    /\ r = fetchRequestId
    /\ reqs[r].outcome \in {"error", "throw"}

SameAsStored(local, row) == UpdatedRow(row, local) = row

\* C25: right after a successful update of a record, the local copy of the
\* record (its entry of database) equals the updated record as the table
\* stores it
C25_LocalCopyIsUpdatedRecord ==
    (lastOp.op = "writeSettled" /\ upd.pc = "done" /\ upd.result
        /\ FindIndex(database, upd.id) > 0)
    => SameAsStored(database[FindIndex(database, upd.id)], remote[upd.id])


(* Properties of the realtime event queue. *)

\* C26 as stated: every event handed to handleChange is in the queue or was
\* taken into a batch, each once
C26_EveryEventProcessedOnce == rt.received = rt.processed + Len(rt.eventQueue)

\* C26, amended: a batch runs only when the debounce delay has passed since
\* the last event, it takes the whole queue, and every event handed to
\* handleChange is in the queue, was taken into one batch, or was dropped by
\* unsubscribe with the queue it was in
C26_DebouncedBatches ==
    [][/\ lastOp'.op = "processEventQueue"
          => /\ now' >= rt.lastEventAt + debounceDelay
             /\ rt'.eventQueue = <<>>
             /\ rt'.processed = rt.processed + Len(rt.eventQueue)
       /\ rt'.received = rt'.processed + rt'.discarded + Len(rt'.eventQueue)
       /\ rt'.processed >= rt.processed
       /\ rt'.discarded > rt.discarded => lastOp'.op = "stopRealtimeSubscription"]_vars

\* a burst of two events that arrived at different instants was handled as
\* one batch
C26_Witness ==
    /\ lastOp.op = "processEventQueue"
    /\ rt.received = 2
    /\ rt.processed = 2
    /\ rt.lastEventAt > 0
    /\ now = rt.lastEventAt + debounceDelay


(* Properties of the cache warm-up. *)

WarmupDone ==
    /\ warmup.called
    /\ warmup.timers = <<>>
    /\ warmup.preloads = <<>>
    /\ \A r \in 1..Len(requests) : requests[r].transport = "done"

\* C27: once warmupCache's preloads have finished, the filters, the sorting
\* and the page of ListState and its rows and count are those of the view
\* the user had when warmupCache was called
C27_WarmupLeavesViewAlone ==
    WarmupDone
    => /\ ListState.filters.status = warmup.before.filters.status
       /\ ListState.sorting.col = warmup.before.sorting.col
       /\ ListState.sorting.asc = warmup.before.sorting.asc
       /\ ListState.pagination.page = warmup.before.page
       /\ ListState.data = warmup.before.data
       /\ ListState.totalCount = warmup.before.totalCount


(* Properties of a cache hit beside a request in flight. *)

\* C28: when a fetch has just been served from the cache, the response of a
\* request that was in flight at that moment does not change the rows and
\* the count committed from the cache
C28_CacheCommitNotOverwritten ==
    [][(lastOp.wrote = "cache" /\ lastOp'.op = "fetchSettled")
       => /\ ListState'.data = ListState.data
          /\ ListState'.totalCount = ListState.totalCount]_vars


(* Properties of the rows and the page number under infinite scroll. *)

\* all rows of the query a request was built from, in its order
FullResult(req) ==
    LET asc == MatchingRows(remote, deleted, req.status, 1)
    IN  IF req.asc THEN asc ELSE Reverse(asc)

\* rows is a run of consecutive rows of all
IsRunOf(rows, all) ==
    \E s \in 0..Len(all) :
        s + Len(rows) <= Len(all) /\ rows = Slice(all, s, s + Len(rows))

\* C29: the response of an append request is appended only to rows of the
\* query (filters and sort) the request itself was built from; the rows it
\* is appended to are rows the server sent (the connection state is
\* "connected"), not those of the local snapshot
C29_AppendsToRowsOfSameQuery ==
    [][(lastOp'.op = "fetchSettled" /\ lastOp'.wrote = "fetch"
            /\ requests[lastOp'.id].append /\ dbConnectionState = "connected")
       => IsRunOf(ListState.data, FullResult(requests[lastOp'.id]))]_vars


\* the rows of the page a request asked for
PageOf(req) == Slice(FullResult(req), req.start, req.end + 1)

\* C30: when the latest page load of infinite scroll settles, in a list that
\* holds rows the server sent, either the rows of the page it asked for have
\* been appended and the page number is one more than before the load, or
\* nothing has been appended and the page number is the one before the load
C30_PageCountsAppendedPages ==
    [][(lastOp'.op = "fetchSettled" /\ requests[lastOp'.id].caller = "loadMoreData"
            /\ lastOp'.id = fetchRequestId /\ dbConnectionState = "connected")
       => \/ /\ ListState'.data = ListState.data \o PageOf(requests[lastOp'.id])
             /\ ListState'.pagination.page = requests[lastOp'.id].targetPage
          \/ /\ ListState'.data = ListState.data
             /\ ListState'.pagination.page = requests[lastOp'.id].targetPage - 1]_vars


(* Further properties of the list renderer. *)

\* the indices of the rows of the data that intersect the viewport
ViewportRows(v) ==
    {i \in 0..(Len(v.data) - 1) :
        i * v.itemHeight < v.scrollTop + v.clientHeight /\ (i + 1) * v.itemHeight > v.scrollTop}

\* C31: whenever the list has a renderer and no render is pending, 0 <=
\* startIndex <= endIndex <= data.length, and every row of the data that
\* intersects the viewport is in the window [startIndex, endIndex)
C31_WindowWithinData ==
    (vsm.manager /\ vsm.frames = <<>>)
    => /\ 0 <= vsm.startIndex
       /\ vsm.startIndex <= vsm.endIndex
       /\ vsm.endIndex <= Len(vsm.data)
       /\ ViewportRows(vsm) \subseteq vsm.startIndex..(vsm.endIndex - 1)

(* The edit dialog. *)
\* the dialog is shown: openEditModal has filled the form and removed the
\* class hidden, and no close timer has fired since
DialogShown == editForm # NoData

\* C32: while the edit dialog is shown, editingModalId is the id of the record in the form and editingOriginalData is the snapshot of that record taken when the dialog was opened, also when the dialog was opened while the timer of an earlier close was pending; the snapshot changes only when a dialog is opened or hidden; and a submit sends that id and that snapshot
C32_DialogIdentifiesRecord ==
    [][/\ DialogShown' =>
            /\ editingModalId' # 0
            /\ editingModalId' = editForm'.id
            /\ editingOriginalData' # NoData
            /\ editingOriginalData'.id = editingModalId'
       /\ (DialogShown /\ DialogShown' /\ lastOp'.op # "openEditModalSettled")
            => (editingOriginalData' = editingOriginalData /\ editingModalId' = editingModalId)
       /\ lastOp'.op = "submitEditForm"
            => (upd'.id = editingModalId /\ upd'.id = editForm.id
                /\ upd'.originalData = editingOriginalData)]_vars

\* a dialog has been opened on another record than the one of the dialog closed before it (lastOp.id), whose close timer is still pending
C32_Witness ==
    /\ lastOp.op = "openEditModalSettled"
    /\ lastOp.id # 0
    /\ lastOp.id # editingModalId
    /\ closeTimer
    /\ DialogShown
(* Invalidation of the cache. *)
\* C33: a getCachedData of a key that clearAllCache or clearCacheByFilters has cleared, with no setCachedData of that key since, reports a miss, also when the deferred save of an earlier setCachedData was pending at the clear
C33_ClearedKeyMisses ==
    (lastOp.op = "getCachedData" /\ lastOp.key \in invalidated) => ~Hit(lastOp.cached)
(* Incremental application of realtime updates. *)
\* every row of the list satisfies the current filters
RowsMatchFilters(ls) == \A i \in 1..Len(ls.data) : shouldIncludeRecord(ls, ls.data[i])

\* C34: when updateRecords applies the rows of a batch of UPDATE events to a list whose rows all satisfy the current filters, every row of ListState.data satisfies them afterwards: a row whose process_status no longer equals the status filter is not kept
C34_UpdatedRowsMatchFilters ==
    [][(lastOp'.op = "updateRecords" /\ lastOp'.wrote = "realtime" /\ RowsMatchFilters(ListState))
       => RowsMatchFilters(ListState')]_vars
(* The subscription. *)
\* C35: between an unsubscribe() and the next subscribe() by the application, the manager starts no list request (the refresh timer of clearCacheAndRefresh), no record fetch (updateRecords) and no resubscription (a timer of handleReconnect)
C35_NothingAfterUnsubscribe ==
    [][(rt.stopped /\ rt'.stopped)
       => /\ lastOp'.op # "clearCacheAndRefresh"
          /\ rtFetches' \subseteq rtFetches
          /\ ~rt'.hasChannel
          /\ ~rt'.isSubscribed]_vars

\* C36: at most maxReconnectAttempts resubscriptions are made with no SUBSCRIBED status between them, and the k-th of them is delayed by reconnectDelay * 2^(k-1)
C36_BoundedBackoff ==
    /\ rt.attempts <= maxReconnectAttempts
    /\ \A k \in 1..Len(rt.delays) : rt.delays[k] = reconnectDelay * 2 ^ (k - 1)
(* Conflicts of both sides. *)
\* C37: every field detectConflict flags was changed on both sides since the snapshot: its current value differs from the snapshot's and the user's value differs from the snapshot's; a field the user left at the snapshot's value is not flagged
C37_FlaggedOnlyIfBothChanged ==
    upd.pc = "detected" =>
        \A j \in 1..Len(upd.conflictFields) :
            LET field == upd.conflictFields[j].field
            IN  /\ upd.currentRecord[field] # upd.originalData[field]
                /\ upd.data[field] # upd.originalData[field]
(* Promotion from the persistent tier. *)
\* C38: when a getCachedData misses the memory tier and returns a non-expired entry of the persistent tier, the entry is in the memory tier afterwards and a getCachedData of the same key that follows at once is answered by the memory tier
C38_PromotedEntryServedFromMemory ==
    [][/\ (lastOp'.op = "getCachedData" /\ lastOp'.tier = "localStorage")
            => CacheIndex(requestCache', lastOp'.key, 1) # 0
       /\ (/\ lastOp.op = "getCachedData" /\ lastOp.tier = "localStorage"
           /\ lastOp'.op = "getCachedData" /\ lastOp'.key = lastOp.key
           /\ now' = now)
            => lastOp'.tier = "memory"]_vars
(* Throttling of scroll events. *)
\* C39: an animation frame runs at most one callback of the scroll handler (one updateRenderRange for scroll events), however many scroll events arrived before it
C39_OneScrollCallbackPerFrame ==
    lastOp.op = "animationFrame"
    => Cardinality({k \in 1..Len(lastOp.callbacks) : lastOp.callbacks[k] = "scroll"}) <= 1
(* Search conditions. *)
\* the conditions applySearchConditions has added for a field
ConditionsOf(field) ==
    IF upd.query = <<>> THEN {}
    ELSE {upd.query[1].or[i] : i \in {j \in 1..Len(upd.query[1].or) :
                                        upd.query[1].or[j].field = field}}

\* the numeric fields among the fields searched
NumericCandidates ==
    LET fields == fieldsToSearch(IF upd.filters.searchField = "" THEN "all"
                                 ELSE upd.filters.searchField)
    IN  {fields[i] : i \in {j \in 1..Len(fields) : FieldType(fields[j]) = "number"}}

\* C40: in fuzzy and in exact mode, a numeric field among the fields searched contributes the one predicate field = parseFloat(term) when the term parses and none when it does not; when no field contributes a predicate, the query is returned as it was given, and otherwise one or-clause that is not empty is added
C40_NumericFieldsByEquality ==
    upd.pc = "searched" =>
        /\ \A field \in NumericCandidates :
                ConditionsOf(field) =
                    IF parseFloat(Trim(upd.filters.search)).nan THEN {}
                    ELSE {[field |-> field, op |-> "eq", text |-> <<>>,
                           number |-> parseFloat(Trim(upd.filters.search)).thousandths]}
        /\ Len(upd.query) <= 1
        /\ upd.query # <<>> => upd.query[1].or # <<>>

\* a search of a numeric field alone for a term that is no number: every candidate is skipped and the query has no clause
C40_Witness ==
    /\ upd.pc = "searched"
    /\ NumericCandidates # {}
    /\ parseFloat(Trim(upd.filters.search)).nan
    /\ upd.filters.searchField = "claim_total"
    /\ upd.query = <<>>
====
